---- MODULE Spec2Model ----
(***************************************************************************)
(* State-machine model of the ISO compliance API (FastAPI + SQLAlchemy):   *)
(* the tenant-scoped relational store, the request handlers of the         *)
(* routers, the request-scoped transaction of get_db and the D-day         *)
(* arithmetic.                                                             *)
(*                                                                         *)
(* Time is counted in whole hours since an epoch.  A datetime value is a   *)
(* record [wall, aware, off]: its wall-clock reading, whether a zone is    *)
(* attached, and the attached UTC offset in hours (0 when naive).          *)
(***************************************************************************)
EXTENDS Integers, Sequences, FiniteSets, TLC

VARIABLES
    backend,        \* settings.DATABASE_TYPE: "sqlite" or "mysql"
    now,            \* the current instant (hours, UTC)
    organizations,  \* table organizations: id -> row
    users,          \* table users: id -> row
    controls,       \* table controls (global catalog): id -> row
    org_controls,   \* table organization_controls: id -> row
    tasks,          \* table tasks: id -> row
    documents,      \* table documents: id -> row
    blobs,          \* the blob store: set of stored file keys
    next_id,        \* number of primary keys handed out so far
    tokens,         \* the token payloads issued so far
    session,        \* the in-flight register request and its transaction
    resp            \* the last response produced by a handler

store == <<organizations, users, controls, org_controls, tasks, documents>>
vars == <<backend, now, organizations, users, controls, org_controls, tasks,
          documents, blobs, next_id, tokens, session, resp>>

-----------------------------------------------------------------------------
(* Values *)

NULL == "NULL"
\* Text is a sequence of characters; NoText is the NULL of a text column.
NoText == <<"NULL">>
NoDate == [none |-> TRUE]
NoResp == [op |-> "none"]
NoSession == [pc |-> "idle"]

HoursPerDay == 24

DT(wall, aware, off) == [wall |-> wall, aware |-> aware, off |-> off]
Naive(wall) == DT(wall, FALSE, 0)
Utc(wall) == DT(wall, TRUE, 0)

\* The instant (hours, UTC) a datetime denotes; a naive one is read as UTC.
Instant(dt) == dt.wall - dt.off
\* The UTC calendar day of a datetime.
UtcDay(dt) == Instant(dt) \div HoursPerDay

RECURSIVE SumSeq(_)
SumSeq(s) == IF s = <<>> THEN 0 ELSE Head(s) + SumSeq(Tail(s))

Abs(n) == IF n < 0 THEN -n ELSE n

-----------------------------------------------------------------------------
(* The relational store and the request context *)

\* Both configured drivers (sqlite+aiosqlite, mysql+aiomysql) write the
\* wall-clock fields of a datetime and drop its zone; a DateTime column is
\* read back naive.
to_db_datetime(dt) == IF dt = NoDate THEN NoDate ELSE Naive(dt.wall)

\* Foreign keys are enforced by MySQL (InnoDB); the SQLite connection never
\* turns the foreign_keys pragma on.
fk_ok(ids, v) == backend = "sqlite" \/ v = NULL \/ v \in ids

\* The authenticated principal a bearer access token resolves to.
current_user(token) ==
    [user_id |-> token.sub, organization_id |-> token.organization_id,
     role |-> token.role]

Contexts == {current_user(t) : t \in {k \in tokens : k.type = "access"}}

\* A gate that lets every role through.
not_admin_never(ctx) == FALSE

\* if current_user["role"] != "admin": raise HTTPException(403)
not_admin(ctx) == ctx.role # "admin"

Remove(table, id) == [k \in DOMAIN table \ {id} |-> table[k]]

\* The fields the update schemas declare (schemas/task.py TaskUpdate,
\* schemas/document.py DocumentUpdate, schemas/control.py
\* OrganizationControlUpdate, schemas/user.py UserUpdate,
\* schemas/organization.py OrganizationUpdate).
TaskUpdateFields ==
    {"title", "description", "status", "priority", "due_date", "control_id",
     "assignee_id", "recurring_rule"}
DocumentUpdateFields == {"name", "description", "expires_at", "control_id", "task_id"}
OrganizationControlUpdateFields == {"status", "is_applicable", "notes"}
UserUpdateFields == {"name", "role"}
OrganizationUpdateFields == {"name", "profile_type"}

\* A schema that keeps the fields it does not declare (extra = "allow").
model_dump_extra_allowed(request, fields) == request

\* request.model_dump(exclude_unset=True) of a body parsed by the schema:
\* the declared fields the client sent; other keys of the body are ignored.
model_dump(request, fields) ==
    [f \in DOMAIN request \cap fields |-> request[f]]

\* for field, value in update_data.items(): setattr(row, field, value)
apply_update(row, update_data) ==
    [f \in DOMAIN row |->
        IF f \in DOMAIN update_data THEN update_data[f] ELSE row[f]]

\* A flushed UPDATE: emitted only when an attribute of the loaded object was
\* set to a different value; it then also sets updated_at
\* (TimestampMixin.updated_at, onupdate=func.now()).  `converted` is the
\* object as the driver writes it.
flush_update(old, object, converted) ==
    IF object = old THEN old ELSE [converted EXCEPT !.updated_at = now]

\* The attributes the ORM leaves expired after that flush: updated_at is set
\* by a SQL expression, which the default eager_defaults ("auto") fetches
\* back on INSERT only.
expired_after_flush(old, object) ==
    IF object = old THEN {} ELSE {"updated_at"}

\* Building the response model reads every field of it from the returned
\* object; reading an expired attribute needs a load the AsyncSession cannot
\* run from the serializer (MissingGreenlet), so the response fails
\* validation, the request ends 500 and get_db rolls the transaction back.
serialize_fails(body, expired) == \E f \in expired : f \in DOMAIN body

HttpError(op, ctx, code) == [op |-> op, ctx |-> ctx, code |-> code]

\* One request served: the response is recorded.
Served(r) == resp' = r

-----------------------------------------------------------------------------
(* Tasks: routers/tasks.py *)

TaskStatus == {"todo", "in_progress", "review", "done"}
TaskPriority == {"low", "medium", "high", "urgent"}
\* nullable=False columns a TaskUpdate can set
task_not_null_ok(row) ==
    row.title # NoText /\ row.status # NULL /\ row.priority # NULL

NoAssignee == [none |-> TRUE]

\* selectinload(Task.assignee) serialised as AssigneeResponse
assignee_of(assignee_id) ==
    IF assignee_id \in DOMAIN users
    THEN [id |-> assignee_id, name |-> users[assignee_id].name,
          email |-> users[assignee_id].email]
    ELSE NoAssignee

\* TaskResponse of a loaded row
TaskResponse(id, row) ==
    [id |-> id, organization_id |-> row.organization_id,
     title |-> row.title, description |-> row.description,
     status |-> row.status, priority |-> row.priority,
     due_date |-> row.due_date, recurring_rule |-> row.recurring_rule,
     control_id |-> row.control_id, assignee_id |-> row.assignee_id,
     assignee |-> assignee_of(row.assignee_id),
     created_at |-> row.created_at, updated_at |-> row.updated_at]

task_id_of(n) == "t" \o ToString(n)

task_fk_ok(row) ==
    /\ fk_ok(DOMAIN org_controls, row.control_id)
    /\ fk_ok(DOMAIN users, row.assignee_id)

\* select(Task).where(Task.id == task_id, Task.organization_id == org)
task_in_org(task_id, org_id) ==
    /\ task_id \in DOMAIN tasks
    /\ tasks[task_id].organization_id = org_id

create_task(ctx, request) ==
    LET id == task_id_of(next_id.task + 1)
        object == [title |-> request.title, description |-> request.description,
                   status |-> request.status, priority |-> request.priority,
                   due_date |-> request.due_date,
                   recurring_rule |-> request.recurring_rule,
                   control_id |-> request.control_id,
                   assignee_id |-> request.assignee_id,
                   organization_id |-> ctx.organization_id,
                   created_at |-> now, updated_at |-> now]
        row == [object EXCEPT !.due_date = to_db_datetime(request.due_date)]
    IN
    IF request.title = NoText
    THEN \* TaskCreate.title is a required str: RequestValidationError
         /\ Served(HttpError("create_task", ctx, 422))
         /\ UNCHANGED <<tasks, next_id>>
    ELSE IF ~task_fk_ok(row)
    THEN \* IntegrityError on flush; get_db rolls back
         /\ Served(HttpError("create_task", ctx, 500))
         /\ UNCHANGED <<tasks, next_id>>
    ELSE /\ tasks' = tasks @@ (id :> row)
         /\ next_id' = [next_id EXCEPT !.task = @ + 1]
         /\ Served([op |-> "create_task", ctx |-> ctx, code |-> 200,
                    request |-> request, body |-> TaskResponse(id, object)])

CreateTask(ctx, request) ==
    /\ create_task(ctx, request)
    /\ UNCHANGED <<backend, now, organizations, users, controls, org_controls,
                   documents, blobs, tokens, session>>

GetTask(ctx, task_id) ==
    /\ IF task_in_org(task_id, ctx.organization_id)
       THEN Served([op |-> "get_task", ctx |-> ctx, code |-> 200, id |-> task_id,
                    body |-> TaskResponse(task_id, tasks[task_id])])
       ELSE Served([op |-> "get_task", ctx |-> ctx, code |-> 404, id |-> task_id])
    /\ UNCHANGED <<backend, now, store, blobs, next_id, tokens, session>>

update_task(ctx, task_id, request) ==
    IF ~task_in_org(task_id, ctx.organization_id)
    THEN /\ Served([op |-> "update_task", ctx |-> ctx, code |-> 404, id |-> task_id])
         /\ UNCHANGED tasks
    ELSE LET old == tasks[task_id]
             object == apply_update(old, model_dump(request, TaskUpdateFields))
             row == flush_update(old, object,
                       [object EXCEPT !.due_date = to_db_datetime(object.due_date)])
         IN IF ~task_not_null_ok(object) \/ ~task_fk_ok(object)
            THEN \* IntegrityError on flush; get_db rolls back
                 /\ Served([op |-> "update_task", ctx |-> ctx, code |-> 500,
                            id |-> task_id, request |-> request, before |-> old])
                 /\ UNCHANGED tasks
            ELSE IF serialize_fails(TaskResponse(task_id, object),
                                    expired_after_flush(old, object))
            THEN /\ Served([op |-> "update_task", ctx |-> ctx, code |-> 500,
                            id |-> task_id, request |-> request, before |-> old])
                 /\ UNCHANGED tasks
            ELSE /\ tasks' = [tasks EXCEPT ![task_id] = row]
                 /\ Served([op |-> "update_task", ctx |-> ctx, code |-> 200,
                            id |-> task_id, request |-> request, before |-> old,
                            body |-> TaskResponse(task_id, object)])

UpdateTask(ctx, task_id, request) ==
    /\ update_task(ctx, task_id, request)
    /\ UNCHANGED <<backend, now, organizations, users, controls, org_controls,
                   documents, blobs, next_id, tokens, session>>

\* The ORM's default for Task.documents (no delete cascade): the documents
\* of a deleted task get task_id = NULL in the same flush.
nullify_task_documents(task_id) ==
    [d \in DOMAIN documents |->
        IF documents[d].task_id = task_id
        THEN [documents[d] EXCEPT !.task_id = NULL, !.updated_at = now]
        ELSE documents[d]]

DeleteTask(ctx, task_id) ==
    /\ IF ~task_in_org(task_id, ctx.organization_id)
       THEN /\ Served([op |-> "delete_task", ctx |-> ctx, code |-> 404, id |-> task_id])
            /\ UNCHANGED <<tasks, documents>>
       ELSE /\ tasks' = Remove(tasks, task_id)
            /\ documents' = nullify_task_documents(task_id)
            /\ Served([op |-> "delete_task", ctx |-> ctx, code |-> 200, id |-> task_id])
    /\ UNCHANGED <<backend, now, organizations, users, controls, org_controls,
                   blobs, next_id, tokens, session>>


-----------------------------------------------------------------------------
(* Documents: routers/documents.py, services/storage.py *)

NoUploader == [none |-> TRUE]
DefaultMimeType == "application/octet-stream"

uploader_of(user_id) ==
    IF user_id \in DOMAIN users
    THEN [id |-> user_id, name |-> users[user_id].name,
          email |-> users[user_id].email]
    ELSE NoUploader

\* DocumentResponse of a loaded row
DocumentResponse(id, row) ==
    [id |-> id, organization_id |-> row.organization_id,
     name |-> row.name, description |-> row.description,
     expires_at |-> row.expires_at, file_key |-> row.file_key,
     file_size |-> row.file_size, mime_type |-> row.mime_type,
     version |-> row.version, control_id |-> row.control_id,
     task_id |-> row.task_id, uploaded_by_id |-> row.uploaded_by_id,
     uploaded_by |-> uploader_of(row.uploaded_by_id),
     created_at |-> row.created_at]

document_id_of(n) == "d" \o ToString(n)

\* StorageService.generate_file_key: "{organization_id}/documents/{unique}"
generate_file_key(organization_id, n) ==
    organization_id \o "/documents/" \o ToString(n)

document_fk_ok(row) ==
    /\ fk_ok(DOMAIN org_controls, row.control_id)
    /\ fk_ok(DOMAIN tasks, row.task_id)
    /\ fk_ok(DOMAIN users, row.uploaded_by_id)

\* select(Document).where(Document.id == id, Document.organization_id == org)
document_in_org(document_id, org_id) ==
    /\ document_id \in DOMAIN documents
    /\ documents[document_id].organization_id = org_id

\* `file` is [filename, content_type, size]; put_ok is whether put_object
\* succeeds.
upload_document(ctx, file, name, description, control_id, task_id, put_ok) ==
    LET n == next_id.document + 1
        id == document_id_of(n)
        file_key == generate_file_key(ctx.organization_id,
                                      n)
        mime == IF file.content_type = NULL THEN DefaultMimeType
                ELSE file.content_type
        row == [name |-> IF name # NoText /\ name # <<>> THEN name
                         ELSE IF file.filename # NoText /\ file.filename # <<>>
                              THEN file.filename
                              ELSE <<"U", "n", "t", "i", "t", "l", "e", "d">>,
                description |-> description, file_key |-> file_key,
                file_size |-> file.size, mime_type |-> mime, version |-> 1,
                expires_at |-> NoDate,
                organization_id |-> ctx.organization_id,
                control_id |-> control_id, task_id |-> task_id,
                uploaded_by_id |-> ctx.user_id,
                created_at |-> now, updated_at |-> now]
    IN
    IF ~put_ok
    THEN \* ClientError re-raised by upload_file
         /\ Served(HttpError("upload_document", ctx, 500))
         /\ UNCHANGED <<documents, blobs, next_id>>
    ELSE IF ~document_fk_ok(row)
    THEN \* the blob is stored, the INSERT fails and is rolled back
         /\ blobs' = blobs \cup {file_key}
         /\ next_id' = [next_id EXCEPT !.document = @ + 1]
         /\ Served(HttpError("upload_document", ctx, 500))
         /\ UNCHANGED documents
    ELSE /\ blobs' = blobs \cup {file_key}
         /\ documents' = documents @@ (id :> row)
         /\ next_id' = [next_id EXCEPT !.document = @ + 1]
         /\ Served([op |-> "upload_document", ctx |-> ctx, code |-> 200,
                    body |-> DocumentResponse(id, row)])

UploadDocument(ctx, file, name, description, control_id, task_id, put_ok) ==
    /\ upload_document(ctx, file, name, description, control_id, task_id, put_ok)
    /\ UNCHANGED <<backend, now, organizations, users, controls, org_controls,
                   tasks, tokens, session>>

GetDocument(ctx, document_id) ==
    /\ IF document_in_org(document_id, ctx.organization_id)
       THEN Served([op |-> "get_document", ctx |-> ctx, code |-> 200,
                    id |-> document_id,
                    body |-> DocumentResponse(document_id, documents[document_id])])
       ELSE Served([op |-> "get_document", ctx |-> ctx, code |-> 404,
                    id |-> document_id])
    /\ UNCHANGED <<backend, now, store, blobs, next_id, tokens, session>>

\* The presigned URL is represented by the file key and file name it signs.
GetDocumentDownloadUrl(ctx, document_id) ==
    /\ IF document_in_org(document_id, ctx.organization_id)
       THEN Served([op |-> "get_document_download_url", ctx |-> ctx, code |-> 200,
                    id |-> document_id,
                    body |-> [file_key |-> documents[document_id].file_key,
                              filename |-> documents[document_id].name,
                              expires_in |-> 3600]])
       ELSE Served([op |-> "get_document_download_url", ctx |-> ctx, code |-> 404,
                    id |-> document_id])
    /\ UNCHANGED <<backend, now, store, blobs, next_id, tokens, session>>

update_document(ctx, document_id, request) ==
    IF ~document_in_org(document_id, ctx.organization_id)
    THEN /\ Served([op |-> "update_document", ctx |-> ctx, code |-> 404,
                    id |-> document_id])
         /\ UNCHANGED documents
    ELSE LET old == documents[document_id]
             object == apply_update(old, model_dump(request, DocumentUpdateFields))
             row == flush_update(old, object,
                      [object EXCEPT !.expires_at = to_db_datetime(object.expires_at)])
         IN IF object.name = NoText \/ ~document_fk_ok(object)
            THEN /\ Served([op |-> "update_document", ctx |-> ctx, code |-> 500,
                            id |-> document_id, request |-> request, before |-> old])
                 /\ UNCHANGED documents
            ELSE IF serialize_fails(DocumentResponse(document_id, object),
                                    expired_after_flush(old, object))
            THEN /\ Served([op |-> "update_document", ctx |-> ctx, code |-> 500,
                            id |-> document_id, request |-> request, before |-> old])
                 /\ UNCHANGED documents
            ELSE /\ documents' = [documents EXCEPT ![document_id] = row]
                 /\ Served([op |-> "update_document", ctx |-> ctx, code |-> 200,
                            id |-> document_id, request |-> request, before |-> old,
                            body |-> DocumentResponse(document_id, object)])

UpdateDocument(ctx, document_id, request) ==
    /\ update_document(ctx, document_id, request)
    /\ UNCHANGED <<backend, now, organizations, users, controls, org_controls,
                   tasks, blobs, next_id, tokens, session>>

\* delete_ok is whether the blob store's delete_object succeeds; delete_file
\* swallows the failure and the handler ignores its result.
DeleteDocument(ctx, document_id, delete_ok) ==
    /\ IF ~document_in_org(document_id, ctx.organization_id)
       THEN /\ Served([op |-> "delete_document", ctx |-> ctx, code |-> 404,
                       id |-> document_id])
            /\ UNCHANGED <<documents, blobs>>
       ELSE /\ blobs' = IF delete_ok
                        THEN blobs \ {documents[document_id].file_key}
                        ELSE blobs
            /\ documents' = Remove(documents, document_id)
            /\ Served([op |-> "delete_document", ctx |-> ctx, code |-> 200,
                       id |-> document_id, blob_deleted |-> delete_ok])
    /\ UNCHANGED <<backend, now, organizations, users, controls, org_controls,
                   tasks, next_id, tokens, session>>


-----------------------------------------------------------------------------
(* Adoption records: routers/controls.py *)

ControlStatus ==
    {"not_started", "in_progress", "review_pending", "completed", "not_applicable"}

\* OrganizationControlResponse with its joined ControlResponse
OrganizationControlResponse(id, row) ==
    [id |-> id, organization_id |-> row.organization_id,
     control_id |-> row.control_id, status |-> row.status,
     is_applicable |-> row.is_applicable, notes |-> row.notes,
     control |-> controls[row.control_id],
     created_at |-> row.created_at, updated_at |-> row.updated_at]

control_in_org(control_id, org_id) ==
    /\ control_id \in DOMAIN org_controls
    /\ org_controls[control_id].organization_id = org_id

GetControl(ctx, control_id) ==
    /\ IF control_in_org(control_id, ctx.organization_id)
       THEN Served([op |-> "get_control", ctx |-> ctx, code |-> 200,
                    id |-> control_id,
                    body |-> OrganizationControlResponse(control_id,
                                                         org_controls[control_id])])
       ELSE Served([op |-> "get_control", ctx |-> ctx, code |-> 404,
                    id |-> control_id])
    /\ UNCHANGED <<backend, now, store, blobs, next_id, tokens, session>>

\* update_control with the record looked up by id alone and the row
\* refreshed before it is returned
update_control_any_org(ctx, control_id, request) ==
    IF control_id \notin DOMAIN org_controls
    THEN /\ Served([op |-> "update_control", ctx |-> ctx, code |-> 404,
                    id |-> control_id])
         /\ UNCHANGED org_controls
    ELSE LET old == org_controls[control_id]
             object == apply_update(old, request)
             row == flush_update(old, object, object)
         IN /\ org_controls' = [org_controls EXCEPT ![control_id] = row]
            /\ Served([op |-> "update_control", ctx |-> ctx, code |-> 200,
                       id |-> control_id, request |-> request, before |-> old,
                       body |-> OrganizationControlResponse(control_id, row)])

update_control(ctx, control_id, request) ==
    IF ~control_in_org(control_id, ctx.organization_id)
    THEN /\ Served([op |-> "update_control", ctx |-> ctx, code |-> 404,
                    id |-> control_id])
         /\ UNCHANGED org_controls
    ELSE LET old == org_controls[control_id]
             object == apply_update(old, model_dump(request, OrganizationControlUpdateFields))
             row == flush_update(old, object, object)
         IN IF object.status = NULL  \* nullable=False (is_applicable is a boolean here)
            THEN /\ Served([op |-> "update_control", ctx |-> ctx, code |-> 500,
                            id |-> control_id, request |-> request, before |-> old])
                 /\ UNCHANGED org_controls
            ELSE IF serialize_fails(OrganizationControlResponse(control_id, object),
                                    expired_after_flush(old, object))
            THEN /\ Served([op |-> "update_control", ctx |-> ctx, code |-> 500,
                            id |-> control_id, request |-> request, before |-> old])
                 /\ UNCHANGED org_controls
            ELSE /\ org_controls' = [org_controls EXCEPT ![control_id] = row]
                 /\ Served([op |-> "update_control", ctx |-> ctx, code |-> 200,
                            id |-> control_id, request |-> request, before |-> old,
                            body |-> OrganizationControlResponse(control_id, object)])

UpdateControl(ctx, control_id, request) ==
    /\ update_control(ctx, control_id, request)
    /\ UNCHANGED <<backend, now, organizations, users, controls, tasks,
                   documents, blobs, next_id, tokens, session>>

-----------------------------------------------------------------------------
(* Users and organizations: routers/users.py, routers/organizations.py *)

UserRole == {"admin", "manager", "member"}
ProfileType == {"startup", "sme", "midsize", "enterprise"}

UserResponse(id, row) ==
    [id |-> id, email |-> row.email, name |-> row.name, role |-> row.role,
     organization_id |-> row.organization_id, created_at |-> row.created_at]

OrganizationResponse(id, row) ==
    [id |-> id, name |-> row.name, profile_type |-> row.profile_type,
     created_at |-> row.created_at, updated_at |-> row.updated_at]

user_in_org(user_id, org_id) ==
    /\ user_id \in DOMAIN users
    /\ users[user_id].organization_id = org_id

GetCurrentUserInfo(ctx) ==
    /\ IF ctx.user_id \in DOMAIN users
       THEN Served([op |-> "get_current_user_info", ctx |-> ctx, code |-> 200,
                    id |-> ctx.user_id,
                    body |-> UserResponse(ctx.user_id, users[ctx.user_id])])
       ELSE Served([op |-> "get_current_user_info", ctx |-> ctx, code |-> 404,
                    id |-> ctx.user_id])
    /\ UNCHANGED <<backend, now, store, blobs, next_id, tokens, session>>

ListOrganizationUsers(ctx) ==
    /\ LET found == {u \in DOMAIN users :
                        users[u].organization_id = ctx.organization_id}
       IN Served([op |-> "list_organization_users", ctx |-> ctx, code |-> 200,
                  users |-> {UserResponse(u, users[u]) : u \in found},
                  total |-> Cardinality(found)])
    /\ UNCHANGED <<backend, now, store, blobs, next_id, tokens, session>>

\* update_user with the assignment ahead of the role and ownership checks
update_user_assign_first(ctx, user_id, request) ==
    /\ users' = IF user_id \in DOMAIN users
                THEN [users EXCEPT ![user_id] = apply_update(@, request)]
                ELSE users
    /\ IF not_admin(ctx)
       THEN Served([op |-> "update_user", ctx |-> ctx, code |-> 403, id |-> user_id])
       ELSE IF ~user_in_org(user_id, ctx.organization_id)
       THEN Served([op |-> "update_user", ctx |-> ctx, code |-> 404, id |-> user_id])
       ELSE Served([op |-> "update_user", ctx |-> ctx, code |-> 200, id |-> user_id,
                    request |-> request, before |-> users[user_id],
                    body |-> UserResponse(user_id, users'[user_id])])

update_user(ctx, user_id, request) ==
    IF not_admin(ctx)
    THEN /\ Served([op |-> "update_user", ctx |-> ctx, code |-> 403, id |-> user_id])
         /\ UNCHANGED users
    ELSE IF ~user_in_org(user_id, ctx.organization_id)
    THEN /\ Served([op |-> "update_user", ctx |-> ctx, code |-> 404, id |-> user_id])
         /\ UNCHANGED users
    ELSE LET old == users[user_id]
             object == apply_update(old, model_dump(request, UserUpdateFields))
             row == flush_update(old, object, object)
         IN IF object.role = NULL
            THEN /\ Served([op |-> "update_user", ctx |-> ctx, code |-> 500,
                            id |-> user_id, request |-> request, before |-> old])
                 /\ UNCHANGED users
            ELSE IF serialize_fails(UserResponse(user_id, object),
                                    expired_after_flush(old, object))
            THEN /\ Served([op |-> "update_user", ctx |-> ctx, code |-> 500,
                            id |-> user_id, request |-> request, before |-> old])
                 /\ UNCHANGED users
            ELSE /\ users' = [users EXCEPT ![user_id] = row]
                 /\ Served([op |-> "update_user", ctx |-> ctx, code |-> 200,
                            id |-> user_id, request |-> request, before |-> old,
                            body |-> UserResponse(user_id, object)])

UpdateUser(ctx, user_id, request) ==
    /\ update_user(ctx, user_id, request)
    /\ UNCHANGED <<backend, now, organizations, controls, org_controls, tasks,
                   documents, blobs, next_id, tokens, session>>

GetCurrentOrganization(ctx) ==
    /\ IF ctx.organization_id \in DOMAIN organizations
       THEN Served([op |-> "get_current_organization", ctx |-> ctx, code |-> 200,
                    id |-> ctx.organization_id,
                    body |-> OrganizationResponse(ctx.organization_id,
                                organizations[ctx.organization_id])])
       ELSE Served([op |-> "get_current_organization", ctx |-> ctx, code |-> 404,
                    id |-> ctx.organization_id])
    /\ UNCHANGED <<backend, now, store, blobs, next_id, tokens, session>>

update_organization(ctx, request) ==
    IF not_admin(ctx)
    THEN /\ Served([op |-> "update_organization", ctx |-> ctx, code |-> 403,
                    id |-> ctx.organization_id])
         /\ UNCHANGED organizations
    ELSE IF ctx.organization_id \notin DOMAIN organizations
    THEN /\ Served([op |-> "update_organization", ctx |-> ctx, code |-> 404,
                    id |-> ctx.organization_id])
         /\ UNCHANGED organizations
    ELSE LET id == ctx.organization_id
             old == organizations[id]
             object == apply_update(old, model_dump(request, OrganizationUpdateFields))
             row == flush_update(old, object, object)
         IN IF object.name = NoText \/ object.profile_type = NULL
            THEN /\ Served([op |-> "update_organization", ctx |-> ctx, code |-> 500,
                            id |-> id, request |-> request, before |-> old])
                 /\ UNCHANGED organizations
            ELSE IF serialize_fails(OrganizationResponse(id, object),
                                    expired_after_flush(old, object))
            THEN /\ Served([op |-> "update_organization", ctx |-> ctx, code |-> 500,
                            id |-> id, request |-> request, before |-> old])
                 /\ UNCHANGED organizations
            ELSE /\ organizations' = [organizations EXCEPT ![id] = row]
                 /\ Served([op |-> "update_organization", ctx |-> ctx, code |-> 200,
                            id |-> id, request |-> request, before |-> old,
                            body |-> OrganizationResponse(id, object)])

UpdateOrganization(ctx, request) ==
    /\ update_organization(ctx, request)
    /\ UNCHANGED <<backend, now, users, controls, org_controls, tasks,
                   documents, blobs, next_id, tokens, session>>

\* The clock advances between requests.
Tick ==
    /\ now' = now + 1
    /\ UNCHANGED <<backend, store, blobs, next_id, tokens, session, resp>>


-----------------------------------------------------------------------------
(* List endpoints: list_tasks, list_controls, list_documents *)

\* Python truthiness of an optional query parameter (None and "" are falsy).
Truthy(v) == v # NULL /\ v # ""
TruthyText(v) == v # NoText /\ v # <<>>

Lower(c) == IF c = "A" THEN "a" ELSE IF c = "B" THEN "b" ELSE c

\* SQL LIKE on lower-cased operands: % matches any run, _ any one character.
RECURSIVE like(_, _)
like(pattern, text) ==
    IF pattern = <<>> THEN text = <<>>
    ELSE IF Head(pattern) = "%"
         THEN like(Tail(pattern), text) \/ (text # <<>> /\ like(pattern, Tail(text)))
         ELSE /\ text # <<>>
              /\ (Head(pattern) = "_" \/ Lower(Head(pattern)) = Lower(Head(text)))
              /\ like(Tail(pattern), Tail(text))

\* column.ilike(f"%{search}%"); a NULL column never matches.
ilike_contains(column, search) ==
    column # NoText /\ like(<<"%">> \o search \o <<"%">>, column)

\* Comparing a naive datetime with an aware one raises TypeError in Python.
py_compare_raises(a, b) == a.aware # b.aware

\* by_x[key] = by_x.get(key, 0) + 1 over the rows
CountBy(ids, key) ==
    [k \in {key[i] : i \in ids} |-> Cardinality({i \in ids : key[i] = k})]

RECURSIVE SumCounts(_)
SumCounts(f) ==
    IF DOMAIN f = {} THEN 0
    ELSE LET k == CHOOSE x \in DOMAIN f : TRUE
         IN f[k] + SumCounts([j \in DOMAIN f \ {k} |-> f[j]])

\* ORDER BY due_date ASC NULLS LAST (ties in the order the database yields)
RECURSIVE tasks_by_due_date(_)
tasks_by_due_date(ids) ==
    IF ids = {} THEN <<>>
    ELSE LET first == CHOOSE t \in ids : \A u \in ids :
                         \/ tasks[u].due_date = NoDate
                         \/ /\ tasks[t].due_date # NoDate
                            /\ tasks[t].due_date.wall <= tasks[u].due_date.wall
         IN <<first>> \o tasks_by_due_date(ids \ {first})

\* WHERE clauses of list_tasks
list_tasks_query(ctx, status, priority, control_id, assignee_id, overdue_only, search) ==
    {t \in DOMAIN tasks :
        /\ tasks[t].organization_id = ctx.organization_id
        /\ (Truthy(status) => tasks[t].status = status)
        /\ (Truthy(priority) => tasks[t].priority = priority)
        /\ (Truthy(control_id) => tasks[t].control_id = control_id)
        /\ (Truthy(assignee_id) => tasks[t].assignee_id = assignee_id)
        /\ (overdue_only =>
               /\ tasks[t].due_date # NoDate
               /\ tasks[t].due_date.wall < now
               /\ tasks[t].status # "done")
        /\ (TruthyText(search) =>
               \/ ilike_contains(tasks[t].title, search)
               \/ ilike_contains(tasks[t].description, search))}

list_tasks(ctx, status, priority, control_id, assignee_id, overdue_only, search) ==
    LET found == list_tasks_query(ctx, status, priority, control_id, assignee_id,
                                  overdue_only, search)
        rows == tasks_by_due_date(found)
        request == [status |-> status, priority |-> priority,
                    control_id |-> control_id, assignee_id |-> assignee_id,
                    overdue_only |-> overdue_only, search |-> search]
    IN
    IF backend = "mysql"
    THEN \* "ORDER BY ... NULLS LAST" is not MySQL syntax: ProgrammingError
         [op |-> "list_tasks", ctx |-> ctx, code |-> 500, request |-> request,
          now |-> now, error |-> "ProgrammingError"]
    ELSE IF \E t \in found : /\ tasks[t].due_date # NoDate
                             /\ py_compare_raises(tasks[t].due_date, Utc(now))
    THEN \* task.due_date < now with a naive due_date
         [op |-> "list_tasks", ctx |-> ctx, code |-> 500, request |-> request,
          now |-> now, error |-> "TypeError"]
    ELSE [op |-> "list_tasks", ctx |-> ctx, code |-> 200, request |-> request,
          now |-> now,
          tasks |-> [i \in 1..Len(rows) |-> TaskResponse(rows[i], tasks[rows[i]])],
          total |-> Len(rows),
          by_status |-> CountBy(found, [t \in found |-> tasks[t].status]),
          by_priority |-> CountBy(found, [t \in found |-> tasks[t].priority]),
          overdue_count |-> Cardinality({t \in found :
                               /\ tasks[t].due_date # NoDate
                               /\ Instant(tasks[t].due_date) < now
                               /\ tasks[t].status # "done"})]

ListTasks(ctx, status, priority, control_id, assignee_id, overdue_only, search) ==
    /\ Served(list_tasks(ctx, status, priority, control_id, assignee_id,
                         overdue_only, search))
    /\ UNCHANGED <<backend, now, store, blobs, next_id, tokens, session>>

\* WHERE clauses of list_controls (the join condition included)
list_controls_query(ctx, status, category, search) ==
    {c \in DOMAIN org_controls :
        /\ org_controls[c].organization_id = ctx.organization_id
        /\ (Truthy(status) => org_controls[c].status = status)
        /\ (Truthy(category) =>
               /\ org_controls[c].control_id \in DOMAIN controls
               /\ controls[org_controls[c].control_id].category = category)
        /\ (TruthyText(search) =>
               /\ org_controls[c].control_id \in DOMAIN controls
               /\ LET ctl == controls[org_controls[c].control_id]
                  IN \/ ilike_contains(ctl.name_ko, search)
                     \/ ilike_contains(ctl.name_en, search)
                     \/ ilike_contains(ctl.control_id, search))}

list_controls(ctx, status, category, search) ==
    LET found == list_controls_query(ctx, status, category, search)
        request == [status |-> status, category |-> category, search |-> search]
    IN
    IF Truthy(category) /\ TruthyText(search)
    THEN \* query.join(Control) twice: "controls" is joined twice without an
         \* alias and the statement is rejected by the database
         [op |-> "list_controls", ctx |-> ctx, code |-> 500, request |-> request,
          error |-> "OperationalError"]
    ELSE [op |-> "list_controls", ctx |-> ctx, code |-> 200, request |-> request,
          controls |-> {OrganizationControlResponse(c, org_controls[c]) : c \in found},
          total |-> Cardinality(found),
          by_status |-> CountBy(found, [c \in found |-> org_controls[c].status]),
          by_category |-> CountBy(found,
                            [c \in found |-> controls[org_controls[c].control_id].category])]

ListControls(ctx, status, category, search) ==
    /\ Served(list_controls(ctx, status, category, search))
    /\ UNCHANGED <<backend, now, store, blobs, next_id, tokens, session>>

\* ORDER BY created_at DESC (ties in the order the database yields)
RECURSIVE documents_by_created_desc(_)
documents_by_created_desc(ids) ==
    IF ids = {} THEN <<>>
    ELSE LET first == CHOOSE d \in ids : \A e \in ids :
                         documents[d].created_at >= documents[e].created_at
         IN <<first>> \o documents_by_created_desc(ids \ {first})

\* The query without its organization clause.
list_documents_any_org(ctx, control_id, task_id, search) ==
    {d \in DOMAIN documents :
        /\ (Truthy(control_id) => documents[d].control_id = control_id)
        /\ (Truthy(task_id) => documents[d].task_id = task_id)
        /\ (TruthyText(search) =>
               \/ ilike_contains(documents[d].name, search)
               \/ ilike_contains(documents[d].description, search))}

\* WHERE clauses of list_documents
list_documents_query(ctx, control_id, task_id, search) ==
    {d \in DOMAIN documents :
        /\ documents[d].organization_id = ctx.organization_id
        /\ (Truthy(control_id) => documents[d].control_id = control_id)
        /\ (Truthy(task_id) => documents[d].task_id = task_id)
        /\ (TruthyText(search) =>
               \/ ilike_contains(documents[d].name, search)
               \/ ilike_contains(documents[d].description, search))}

RECURSIVE sum_file_size(_)
sum_file_size(rows) ==
    IF rows = <<>> THEN 0
    ELSE documents[Head(rows)].file_size + sum_file_size(Tail(rows))

list_documents(ctx, control_id, task_id, search) ==
    LET rows == documents_by_created_desc(
                    list_documents_query(ctx, control_id, task_id, search))
    IN [op |-> "list_documents", ctx |-> ctx, code |-> 200,
        request |-> [control_id |-> control_id, task_id |-> task_id,
                     search |-> search],
        documents |-> [i \in 1..Len(rows) |->
                          DocumentResponse(rows[i], documents[rows[i]])],
        total |-> Len(rows),
        total_size |-> sum_file_size(rows)]

ListDocuments(ctx, control_id, task_id, search) ==
    /\ Served(list_documents(ctx, control_id, task_id, search))
    /\ UNCHANGED <<backend, now, store, blobs, next_id, tokens, session>>


-----------------------------------------------------------------------------
(* The store the specifications start from: two organizations registered at
   instant 0, each with its admin user and the tokens register issued, the
   control catalog and the adoption rows seeded for both organizations. *)

OrganizationRow(name) ==
    [name |-> name, profile_type |-> "startup", created_at |-> 0, updated_at |-> 0]

UserRow(email, org_id) ==
    [email |-> email, name |-> NoText, role |-> "admin", organization_id |-> org_id,
     created_at |-> 0, updated_at |-> 0]

ControlRow(code, name_en, name_ko, category) ==
    [control_id |-> code, name_en |-> name_en, name_ko |-> name_ko,
     category |-> category]

OrganizationControlRow(org_id, control_id) ==
    [organization_id |-> org_id, control_id |-> control_id,
     status |-> "not_started", is_applicable |-> TRUE, notes |-> NoText,
     created_at |-> 0, updated_at |-> 0]

\* token_data of register / login / refresh_token
token_data(user_id, row, type) ==
    [sub |-> user_id, email |-> row.email,
     organization_id |-> row.organization_id, role |-> row.role, type |-> type]

InitStore ==
    /\ backend \in {"sqlite", "mysql"}
    /\ now = 1
    /\ organizations = ("o1" :> OrganizationRow(<<"a">>)) @@ ("o2" :> OrganizationRow(<<"b">>))
    /\ users = ("u1" :> UserRow(<<"a">>, "o1")) @@ ("u2" :> UserRow(<<"b">>, "o2"))
    /\ controls = ("c1" :> ControlRow(<<"5">>, <<"a">>, <<"b">>, "A.5"))
               @@ ("c2" :> ControlRow(<<"6">>, <<"A", "b">>, <<"b">>, "A.6"))
    /\ org_controls = ("oc1" :> OrganizationControlRow("o1", "c1"))
                   @@ ("oc2" :> OrganizationControlRow("o1", "c2"))
                   @@ ("oc3" :> OrganizationControlRow("o2", "c1"))
                   @@ ("oc4" :> OrganizationControlRow("o2", "c2"))
    /\ tasks = << >>
    /\ documents = << >>
    /\ blobs = {}
    /\ next_id = [task |-> 0, document |-> 0, organization |-> 2, user |-> 2]
    /\ tokens = {token_data(u, UserRow(e, o), t) :
                    u \in {"u1"}, e \in {<<"a">>}, o \in {"o1"}, t \in {"access", "refresh"}}
           \cup {token_data(u, UserRow(e, o), t) :
                    u \in {"u2"}, e \in {<<"b">>}, o \in {"o2"}, t \in {"access", "refresh"}}
    /\ session = NoSession
    /\ resp = NoResp

-----------------------------------------------------------------------------
(* Specification of document listing: uploads, deletions and filtered
   listings of at most MaxDocs documents (the blob store always
   succeeds here). *)

MaxDocs == 2

DocumentIds == {document_id_of(n) : n \in 1..MaxDocs}
DocFiles ==
    {[filename |-> <<"a">>, content_type |-> NULL, size |-> 1],
     [filename |-> <<"B">>, content_type |-> "text/plain", size |-> 2]}
DocControlInputs == {NULL, "oc1"}
DocTaskInputs == {NULL, "t1"}
DocSearchInputs == {NoText, <<"a">>}

NextDocs ==
    \E ctx \in Contexts :
        \/ /\ next_id.document < MaxDocs
           /\ \E file \in DocFiles, control_id \in DocControlInputs,
                 task_id \in DocTaskInputs :
                 UploadDocument(ctx, file, NoText, NoText, control_id, task_id, TRUE)
        \/ \E id \in DocumentIds : DeleteDocument(ctx, id, TRUE)
        \/ \E control_id \in DocControlInputs, task_id \in DocTaskInputs,
              search \in DocSearchInputs :
              ListDocuments(ctx, control_id, task_id, search)

SpecDocs == InitStore /\ [][NextDocs]_vars

\* The sum of file_size over a sequence of DocumentResponse records
RECURSIVE ResponseSizeSum(_)
ResponseSizeSum(docs) ==
    IF docs = <<>> THEN 0 ELSE Head(docs).file_size + ResponseSizeSum(Tail(docs))

\* C10: listDocuments' total_size is the sum of file_size over exactly the
\* documents returned for the caller's organization under the supplied
\* filters, and total is their number; documents of other organizations or
\* excluded by a filter never contribute.
C10_ListDocumentsTotals ==
    (resp.op = "list_documents") =>
        LET docs == resp.documents
            ids == {docs[i].id : i \in 1..Len(docs)}
            f == resp.request
        IN /\ resp.code = 200
           /\ resp.total = Len(docs)
           /\ Cardinality(ids) = Len(docs)
           /\ resp.total_size = ResponseSizeSum(docs)
           /\ ids = {d \in DOMAIN documents :
                       /\ documents[d].organization_id = resp.ctx.organization_id
                       /\ (Truthy(f.control_id) => documents[d].control_id = f.control_id)
                       /\ (Truthy(f.task_id) => documents[d].task_id = f.task_id)
                       /\ (TruthyText(f.search) =>
                              \/ ilike_contains(documents[d].name, f.search)
                              \/ ilike_contains(documents[d].description, f.search))}
           /\ \A i \in 1..Len(docs) : docs[i].file_size = documents[docs[i].id].file_size

\* A filtered listing that returns a document while the store holds a
\* document of the same organization that the filter excludes.
C10_Witness ==
    /\ resp.op = "list_documents"
    /\ Truthy(resp.request.control_id)
    /\ resp.total >= 1
    /\ resp.total_size >= 1
    /\ \E d \in DOMAIN documents :
          /\ documents[d].organization_id = resp.ctx.organization_id
          /\ documents[d].control_id # resp.request.control_id


-----------------------------------------------------------------------------
(* Specification of task and control listing: task creation, adoption
   status updates and filtered listings over at most MaxTasks tasks. *)

MaxTasks == 2

TaskIds == {task_id_of(n) : n \in 1..MaxTasks}

BaseTask ==
    [title |-> <<"a">>, description |-> NoText, status |-> "todo",
     priority |-> "medium", due_date |-> NoDate, recurring_rule |-> NULL,
     control_id |-> NULL, assignee_id |-> NULL]

ListTaskCreates ==
    {BaseTask,
     [BaseTask EXCEPT !.status = "done"],
     [BaseTask EXCEPT !.priority = "high", !.title = <<"b">>],
     [BaseTask EXCEPT !.due_date = Naive(0)],
     [BaseTask EXCEPT !.due_date = Naive(0), !.status = "done"],
     [BaseTask EXCEPT !.due_date = Utc(5), !.description = <<"A">>]}

NextList ==
    \E ctx \in Contexts :
        \/ /\ next_id.task < MaxTasks
           /\ \E request \in ListTaskCreates : CreateTask(ctx, request)
        \/ \E id \in {"oc1", "oc3"} : UpdateControl(ctx, id, [status |-> "completed"])
        \/ \E status \in {NULL, "todo"}, priority \in {NULL, "high"},
              overdue_only \in BOOLEAN, search \in {NoText, <<"a">>} :
              ListTasks(ctx, status, priority, NULL, NULL, overdue_only, search)
        \/ \E status \in {NULL, "completed"}, category \in {NULL, "A.5"},
              search \in {NoText, <<"a">>} :
              ListControls(ctx, status, category, search)

SpecList == InitStore /\ [][NextList]_vars

\* C7: for every store state and every filter combination, listTasks returns
\* sum(by_status) = sum(by_priority) = total = number of tasks returned, and
\* listControls returns sum(by_status) = sum(by_category) = total = number
\* of adoption records returned.
C7_AggregateConsistency ==
    /\ (resp.op = "list_tasks") =>
          /\ resp.code = 200
          /\ resp.total = Len(resp.tasks)
          /\ SumCounts(resp.by_status) = resp.total
          /\ SumCounts(resp.by_priority) = resp.total
    /\ (resp.op = "list_controls") =>
          /\ resp.code = 200
          /\ resp.total = Cardinality(resp.controls)
          /\ SumCounts(resp.by_status) = resp.total
          /\ SumCounts(resp.by_category) = resp.total

\* C8: listTasks' overdue_count is the number of returned tasks with
\* due_date < now and status != done; so overdue_count <= total, and with
\* overdueOnly set overdue_count = total.
C8_OverdueCount ==
    (resp.op = "list_tasks") =>
        /\ resp.code = 200
        /\ resp.overdue_count =
              Cardinality({i \in 1..Len(resp.tasks) :
                  /\ resp.tasks[i].due_date # NoDate
                  /\ Instant(resp.tasks[i].due_date) < resp.now
                  /\ resp.tasks[i].status # "done"})
        /\ resp.overdue_count <= resp.total
        /\ (resp.request.overdue_only => resp.overdue_count = resp.total)


-----------------------------------------------------------------------------
(* Specification of the tenant-scoped trackers: both organizations create,
   read, re-link and delete tasks and documents and read users, adoption
   records and their organization. *)

MaxTenantTasks == 1
MaxTenantDocs == 1

TenantTaskIds == {task_id_of(n) : n \in 1..MaxTenantTasks}
TenantDocumentIds == {document_id_of(n) : n \in 1..MaxTenantDocs}

TenantTaskCreates ==
    {BaseTask,
     [BaseTask EXCEPT !.assignee_id = "u2"],
     [BaseTask EXCEPT !.control_id = "oc3"],
     [BaseTask EXCEPT !.due_date = Naive(30), !.description = <<"b">>,
                      !.status = "review", !.priority = "urgent",
                      !.recurring_rule = "FREQ=DAILY", !.control_id = "oc1",
                      !.assignee_id = "u1"],
     [BaseTask EXCEPT !.due_date = DT(33, TRUE, 9)]}

TenantTaskUpdates == {[assignee_id |-> "u2"], [control_id |-> "oc3"]}
TenantFile == [filename |-> <<"a">>, content_type |-> NULL, size |-> 1]

Next ==
    \E ctx \in Contexts :
        \/ /\ next_id.task < MaxTenantTasks
           /\ \E request \in TenantTaskCreates : CreateTask(ctx, request)
        \/ \E id \in TenantTaskIds : GetTask(ctx, id)
        \/ \E id \in TenantTaskIds, request \in TenantTaskUpdates :
              UpdateTask(ctx, id, request)
        \/ \E id \in TenantTaskIds : DeleteTask(ctx, id)
        \/ ListTasks(ctx, NULL, NULL, NULL, NULL, FALSE, NoText)
        \/ /\ next_id.document < MaxTenantDocs
           /\ \E control_id \in {NULL, "oc3"}, task_id \in {NULL} \cup TenantTaskIds :
                 UploadDocument(ctx, TenantFile, NoText, NoText, control_id, task_id, TRUE)
        \/ \E id \in TenantDocumentIds : GetDocument(ctx, id)
        \/ \E id \in TenantDocumentIds : GetDocumentDownloadUrl(ctx, id)
        \/ \E id \in TenantDocumentIds, task_id \in TenantTaskIds :
              UpdateDocument(ctx, id, [task_id |-> task_id])
        \/ \E id \in TenantDocumentIds : DeleteDocument(ctx, id, TRUE)
        \/ ListDocuments(ctx, NULL, NULL, NoText)
        \/ \E id \in {"oc1", "oc3"} : GetControl(ctx, id)
        \/ ListControls(ctx, NULL, NULL, NoText)
        \/ GetCurrentUserInfo(ctx)
        \/ ListOrganizationUsers(ctx)
        \/ GetCurrentOrganization(ctx)

Spec == InitStore /\ [][Next]_vars

\* The organization that owns the record an operation addressed by id, or
\* NULL when no such record is stored.
OwnerOfTarget(r) ==
    IF r.op \in {"get_task", "update_task", "delete_task"}
    THEN IF r.id \in DOMAIN tasks THEN tasks[r.id].organization_id ELSE NULL
    ELSE IF r.op \in {"get_document", "get_document_download_url",
                      "update_document", "delete_document"}
    THEN IF r.id \in DOMAIN documents THEN documents[r.id].organization_id ELSE NULL
    ELSE IF r.op \in {"get_control", "update_control"}
    THEN IF r.id \in DOMAIN org_controls THEN org_controls[r.id].organization_id ELSE NULL
    ELSE IF r.op = "update_user"
    THEN IF r.id \in DOMAIN users THEN users[r.id].organization_id ELSE NULL
    ELSE NULL

\* The records of other tables a response embeds: the assignee of a task.
ForeignUserRead(r) ==
    /\ r.op \in {"create_task", "get_task", "update_task"}
    /\ r.code = 200
    /\ r.body.assignee # NoAssignee
    /\ users[r.body.assignee.id].organization_id # r.ctx.organization_id

\* C1: no operation executed with O1's context reads, updates or deletes a
\* record owned by O2 != O1, and addressing an O2-owned record by id from
\* O1's context returns 404, never the record and never 403.
C1_TenantIsolation ==
    (resp.op # "none") =>
        /\ (OwnerOfTarget(resp) \notin {NULL, resp.ctx.organization_id} => resp.code = 404)
        /\ (resp.code = 200 /\ "body" \in DOMAIN resp /\ "organization_id" \in DOMAIN resp.body
               => resp.body.organization_id = resp.ctx.organization_id)
        /\ ~ForeignUserRead(resp)

\* C2: a Task's assignee and linked OrganizationControl, and a Document's
\* linked OrganizationControl and Task, always belong to the record's own
\* organization (a create or update that would introduce a cross-tenant
\* reference is rejected and changes nothing).
C2_NoCrossTenantReference ==
    /\ \A t \in DOMAIN tasks :
          /\ (tasks[t].assignee_id # NULL =>
                user_in_org(tasks[t].assignee_id, tasks[t].organization_id))
          /\ (tasks[t].control_id # NULL =>
                control_in_org(tasks[t].control_id, tasks[t].organization_id))
    /\ \A d \in DOMAIN documents :
          /\ (documents[d].control_id # NULL =>
                control_in_org(documents[d].control_id, documents[d].organization_id))
          /\ (documents[d].task_id # NULL =>
                task_in_org(documents[d].task_id, documents[d].organization_id))

\* Equality of an input datetime and a returned one: both absent, or both
\* present and denoting the same instant (a naive value read as UTC).
SameDatetime(a, b) ==
    IF a = NoDate \/ b = NoDate THEN a = b ELSE Instant(a) = Instant(b)

\* C9: createTask followed at once by getTask(id) in the same organization's
\* context returns title, description, status, priority, due_date,
\* recurring_rule, control_id and assignee_id equal to the input, plus the
\* server-assigned id and the caller's organization_id.
C9_CreateGetRoundTrip ==
    [][(/\ resp.op = "create_task"
        /\ resp.code = 200
        /\ resp'.op = "get_task"
        /\ resp'.id = resp.body.id
        /\ resp'.ctx.organization_id = resp.ctx.organization_id)
       => /\ resp'.code = 200
          /\ resp'.body.id = resp.body.id
          /\ resp'.body.organization_id = resp.ctx.organization_id
          /\ resp'.body.title = resp.request.title
          /\ resp'.body.description = resp.request.description
          /\ resp'.body.status = resp.request.status
          /\ resp'.body.priority = resp.request.priority
          /\ resp'.body.recurring_rule = resp.request.recurring_rule
          /\ resp'.body.control_id = resp.request.control_id
          /\ resp'.body.assignee_id = resp.request.assignee_id
          /\ SameDatetime(resp.request.due_date, resp'.body.due_date)]_vars


-----------------------------------------------------------------------------
(* Specification of the partial updates: the five update handlers on
   records both organizations hold, with the clock advancing between
   requests. *)

MaxNow == 2

UpdateFile == [filename |-> <<"a">>, content_type |-> NULL, size |-> 1]

NextUpdate ==
    \/ now < MaxNow /\ Tick
    \/ \E ctx \in Contexts :
        \/ next_id.task < MaxTenantTasks /\ CreateTask(ctx, BaseTask)
        \/ /\ next_id.document < MaxTenantDocs
           /\ UploadDocument(ctx, UpdateFile, NoText, NoText, NULL, NULL, TRUE)
        \/ \E id \in TenantTaskIds,
              request \in {[title |-> <<"b">>], [title |-> <<"a">>],
                           [status |-> "done", priority |-> "high"]} :
              UpdateTask(ctx, id, request)
        \/ \E id \in {"oc1", "oc3"},
              request \in {[status |-> "completed"], [status |-> "not_started"],
                           [notes |-> <<"b">>]} :
              UpdateControl(ctx, id, request)
        \/ \E id \in TenantDocumentIds,
              request \in {[name |-> <<"b">>], [description |-> <<"b">>]} :
              UpdateDocument(ctx, id, request)
        \/ \E id \in {"u1", "u2"}, request \in {[name |-> <<"c">>]} :
              UpdateUser(ctx, id, request)
        \/ \E request \in {[name |-> <<"c">>], [profile_type |-> "sme"]} :
              UpdateOrganization(ctx, request)

SpecUpdate == InitStore /\ [][NextUpdate]_vars

UpdateOps ==
    {"update_task", "update_control", "update_document", "update_user",
     "update_organization"}

\* The stored record an update request addressed.
StoredAfter(r) ==
    IF r.op = "update_task" THEN tasks[r.id]
    ELSE IF r.op = "update_control" THEN org_controls[r.id]
    ELSE IF r.op = "update_document" THEN documents[r.id]
    ELSE IF r.op = "update_user" THEN users[r.id]
    ELSE organizations[r.id]

\* C4: after updateTask, updateControl, updateDocument, update_user or
\* update_organization on a record of the caller's organization, the stored
\* record holds the request's value in every field the request body has and
\* its prior value in every other field.
C4_PartialUpdate ==
    (resp.op \in UpdateOps /\ resp.code \notin {403, 404}) =>
        \A f \in DOMAIN resp.before :
            StoredAfter(resp)[f] =
                IF f \in DOMAIN resp.request THEN resp.request[f] ELSE resp.before[f]

-----------------------------------------------------------------------------
(* Registration and the session dependency: routers/auth.py, db/database.py.
   A request runs in one AsyncSession; its flushed rows stay pending in the
   session's transaction until get_db commits or rolls back. *)

organization_id_of(n) == "o" \o ToString(n)
user_id_of(n) == "u" \o ToString(n)

\* The e-mail check left out: no e-mail counts as registered.
email_registered_never(email) == FALSE

email_registered(email) == \E u \in DOMAIN users : users[u].email = email

\* The id of the one row pending in a table of the session, NULL when none.
pending_id(pending) ==
    IF DOMAIN pending = {} THEN NULL ELSE CHOOSE id \in DOMAIN pending : TRUE

\* await session.commit(): the pending rows become visible.
session_commit(table, pending) == pending @@ table

\* A rollback that keeps what was flushed.
session_rollback_keeps_flushed(table, pending) == pending @@ table

\* await session.rollback(): the pending rows are discarded.
session_rollback(table, pending) == table

\* user.role.value: a role loaded from the database is a UserRole member;
\* the role of an object the handler constructed is still the plain str the
\* constructor was given, which has no attribute value (NULL: AttributeError).
role_value(role, loaded) == IF loaded THEN role ELSE NULL

\* register up to its first flush: the e-mail check and the new session.
Register(request) ==
    /\ session = NoSession
    /\ IF email_registered(request.email)
       THEN /\ Served([op |-> "register", code |-> 400, request |-> request,
                       organization_id |-> NULL, user_id |-> NULL])
            /\ UNCHANGED session
       ELSE /\ session' = [pc |-> "flush_organization", op |-> "register",
                           request |-> request, organizations |-> << >>,
                           users |-> << >>, issued |-> {}]
            /\ UNCHANGED resp
    /\ UNCHANGED <<backend, now, store, blobs, next_id, tokens>>

\* db.add(organization); await db.flush().  flush_ok is whether the database
\* executes the INSERT.
RegisterFlushOrganization(flush_ok) ==
    /\ session.pc = "flush_organization"
    /\ LET id == organization_id_of(next_id.organization + 1)
       IN /\ next_id' = [next_id EXCEPT !.organization = @ + 1]
          /\ session' = IF flush_ok
                        THEN [session EXCEPT
                                !.organizations =
                                    id :> [OrganizationRow(session.request.organization_name)
                                             EXCEPT !.created_at = now, !.updated_at = now],
                                !.pc = "flush_user"]
                        ELSE [session EXCEPT !.pc = "raised"]
    /\ UNCHANGED <<backend, now, store, blobs, tokens, resp>>

\* db.add(user); await db.flush(): fails on the unique e-mail index too.
RegisterFlushUser(flush_ok) ==
    /\ session.pc = "flush_user"
    /\ LET id == user_id_of(next_id.user + 1)
           org_id == pending_id(session.organizations)
       IN /\ next_id' = [next_id EXCEPT !.user = @ + 1]
          /\ session' = IF flush_ok /\ ~email_registered(session.request.email)
                        THEN [session EXCEPT
                                !.users =
                                    id :> [[UserRow(session.request.email, org_id)
                                              EXCEPT !.name = session.request.name]
                                             EXCEPT !.created_at = now, !.updated_at = now],
                                !.pc = "tokens"]
                        ELSE [session EXCEPT !.pc = "raised"]
    /\ UNCHANGED <<backend, now, store, blobs, tokens, resp>>

\* token_data = {..., "role": user.role.value}; return TokenResponse(...)
RegisterTokens ==
    /\ session.pc = "tokens"
    /\ LET id == pending_id(session.users)
           row == session.users[id]
       IN session' = IF role_value(row.role, FALSE) = NULL
                     THEN [session EXCEPT !.pc = "raised"]
                     ELSE [session EXCEPT
                             !.issued = {token_data(id, row, t) : t \in {"access", "refresh"}},
                             !.pc = "returned"]
    /\ UNCHANGED <<backend, now, store, blobs, next_id, tokens, resp>>

\* login: the user is loaded from the database; password_ok is the result
\* of verify_password.
Login(request, password_ok) ==
    /\ session = NoSession
    /\ LET found == {u \in DOMAIN users : users[u].email = request.email}
       IN IF found = {} \/ ~password_ok
          THEN /\ Served([op |-> "login", code |-> 401, request |-> request])
               /\ UNCHANGED session
          ELSE LET id == CHOOSE u \in found : TRUE
                   row == [users[id] EXCEPT !.role = role_value(users[id].role, TRUE)]
               IN /\ session' = [pc |-> "returned", op |-> "login",
                                 request |-> request, organizations |-> << >>,
                                 users |-> << >>,
                                 issued |-> {token_data(id, row, t) :
                                                t \in {"access", "refresh"}}]
                  /\ UNCHANGED resp
    /\ UNCHANGED <<backend, now, store, blobs, next_id, tokens>>

\* get_db after the handler returned: await session.commit(); commit_ok is
\* whether the database commits, otherwise the except branch rolls back.
GetDbCommit(commit_ok) ==
    /\ session.pc = "returned"
    /\ IF commit_ok
       THEN /\ organizations' = session_commit(organizations, session.organizations)
            /\ users' = session_commit(users, session.users)
            /\ tokens' = tokens \cup session.issued
            /\ Served([op |-> session.op, code |-> 200, request |-> session.request,
                       organization_id |-> pending_id(session.organizations),
                       user_id |-> pending_id(session.users)])
       ELSE /\ organizations' = session_rollback(organizations, session.organizations)
            /\ users' = session_rollback(users, session.users)
            /\ UNCHANGED tokens
            /\ Served([op |-> session.op, code |-> 500, request |-> session.request,
                       organization_id |-> pending_id(session.organizations),
                       user_id |-> pending_id(session.users)])
    /\ session' = NoSession
    /\ UNCHANGED <<backend, now, controls, org_controls, tasks, documents, blobs,
                   next_id>>

\* get_db after the handler raised: await session.rollback(); raise.
GetDbRollback ==
    /\ session.pc = "raised"
    /\ organizations' = session_rollback(organizations, session.organizations)
    /\ users' = session_rollback(users, session.users)
    /\ Served([op |-> session.op, code |-> 500, request |-> session.request,
               organization_id |-> pending_id(session.organizations),
               user_id |-> pending_id(session.users)])
    /\ session' = NoSession
    /\ UNCHANGED <<backend, now, controls, org_controls, tasks, documents, blobs,
                   next_id, tokens>>

-----------------------------------------------------------------------------
(* Specification of registration: register and login requests, one at a
   time, each ended by get_db. *)

MaxOrganizations == 4

RegisterRequests ==
    {[email |-> e, name |-> n, organization_name |-> <<"n">>] :
        e \in {<<"a">>, <<"c">>}, n \in {NoText, <<"c">>}}

LoginRequests == {[email |-> e] : e \in {<<"a">>, <<"c">>}}

NextRegister ==
    \/ /\ next_id.organization < MaxOrganizations
       /\ \E request \in RegisterRequests : Register(request)
    \/ \E flush_ok \in BOOLEAN : RegisterFlushOrganization(flush_ok)
    \/ \E flush_ok \in BOOLEAN : RegisterFlushUser(flush_ok)
    \/ RegisterTokens
    \/ \E request \in LoginRequests, password_ok \in BOOLEAN : Login(request, password_ok)
    \/ \E commit_ok \in BOOLEAN : GetDbCommit(commit_ok)
    \/ GetDbRollback

SpecRegister == InitStore /\ [][NextRegister]_vars

\* C3: registration is atomic.  When a register request has ended, the
\* organization row and the user row it flushed are both visible if it
\* succeeded and neither is visible if it failed at any point; while the
\* request is in flight its flushed rows are visible to nobody.
C3_RegistrationAtomic ==
    /\ (session # NoSession =>
           /\ DOMAIN session.organizations \cap DOMAIN organizations = {}
           /\ DOMAIN session.users \cap DOMAIN users = {})
    /\ (session = NoSession /\ resp.op = "register" =>
           IF resp.code = 200
           THEN /\ resp.organization_id \in DOMAIN organizations
                /\ resp.user_id \in DOMAIN users
                /\ users[resp.user_id].organization_id = resp.organization_id
           ELSE /\ resp.organization_id \notin DOMAIN organizations
                /\ resp.user_id \notin DOMAIN users)

\* A register request that failed after its organization row was flushed.
C3_Witness ==
    /\ session = NoSession
    /\ resp.op = "register"
    /\ resp.code = 500
    /\ resp.organization_id # NULL
    /\ resp.organization_id \notin DOMAIN organizations

\* C15: a register request whose e-mail already belongs to a user of any
\* organization is refused with "Email already registered" and creates
\* neither an organization nor a user; no two user rows share an e-mail.
C15_DuplicateEmail ==
    /\ [](\A u, v \in DOMAIN users : users[u].email = users[v].email => u = v)
    /\ [][(resp' # resp /\ resp'.op = "register"
              /\ \E u \in DOMAIN users : users[u].email = resp'.request.email)
             => /\ resp'.code = 400
                /\ UNCHANGED <<store, next_id, session, tokens>>]_vars

\* A register request with the e-mail of an existing user was refused.
C15_Witness ==
    /\ resp.op = "register"
    /\ resp.code = 400
    /\ \E u \in DOMAIN users : users[u].email = resp.request.email
    /\ DOMAIN users = {"u1", "u2"}
    /\ DOMAIN organizations = {"o1", "o2"}

\* The organizations of the store together with the one a register request
\* has written in its transaction once the handler has made all its writes.
organizations_written ==
    DOMAIN organizations
        \cup (IF session # NoSession /\ session.op = "register"
                    /\ session.pc \in {"tokens", "returned"}
              THEN DOMAIN session.organizations ELSE {})

\* C16: once register has written a new organization, and in every later
\* state, the organization has exactly one adoption record for each control
\* of the catalog.
C16_AdoptionCoverage ==
    \A o \in organizations_written :
        \A c \in DOMAIN controls :
            Cardinality({oc \in DOMAIN org_controls :
                            /\ org_controls[oc].organization_id = o
                            /\ org_controls[oc].control_id = c}) = 1

-----------------------------------------------------------------------------
(* Specification of the blob store: uploads and deletions whose blob-store
   call may fail. *)

NextBlob ==
    \E ctx \in Contexts :
        \/ /\ next_id.document < MaxDocs
           /\ \E put_ok \in BOOLEAN :
                 UploadDocument(ctx, TenantFile, NoText, NoText, NULL, NULL, put_ok)
        \/ \E id \in DocumentIds, delete_ok \in BOOLEAN :
              DeleteDocument(ctx, id, delete_ok)
        \/ \E id \in DocumentIds : GetDocument(ctx, id)
        \/ \E id \in DocumentIds : GetDocumentDownloadUrl(ctx, id)

SpecBlob == InitStore /\ [][NextBlob]_vars

\* C11: when the blob store's delete of the document's file_key fails,
\* delete_document does not delete the Document row and does not report
\* success.
C11_NoMetadataDeleteAfterBlobFailure ==
    (/\ resp.op = "delete_document"
     /\ "blob_deleted" \in DOMAIN resp
     /\ ~resp.blob_deleted)
    => (resp.code # 200 /\ resp.id \in DOMAIN documents)

-----------------------------------------------------------------------------
(* Specification of the roles: admins change roles, users log in again and
   act under the role their new token carries. *)

AdminOps == {"update_organization", "update_user"}

NextRoles ==
    \/ \E request \in {[email |-> <<"a">>], [email |-> <<"b">>]} : Login(request, TRUE)
    \/ GetDbCommit(TRUE)
    \/ \E ctx \in Contexts :
        \/ \E id \in {"u1", "u2"} : UpdateUser(ctx, id, [role |-> "member"])
        \/ \E request \in {[name |-> <<"a">>], [profile_type |-> "startup"]} :
              UpdateOrganization(ctx, request)
        \/ next_id.task < MaxTenantTasks /\ CreateTask(ctx, BaseTask)
        \/ \E id \in TenantTaskIds : GetTask(ctx, id)
        \/ \E id \in TenantTaskIds : DeleteTask(ctx, id)
        \/ GetControl(ctx, "oc1")
        \/ ListOrganizationUsers(ctx)

SpecRoles == InitStore /\ [][NextRoles]_vars

\* C12: update_organization and update_user succeed only when the caller's
\* context role is admin, and otherwise answer 403 with no record changed;
\* no other operation answers 403, whatever the caller's role.
C12_AdminGating ==
    [][("ctx" \in DOMAIN resp' /\ resp' # resp) =>
          /\ (resp'.op \in AdminOps /\ resp'.ctx.role # "admin"
                => resp'.code = 403 /\ UNCHANGED <<store, blobs>>)
          /\ (resp'.op \in AdminOps /\ resp'.code = 200 => resp'.ctx.role = "admin")
          /\ (resp'.op \notin AdminOps => resp'.code # 403)]_vars

\* A user demoted to member is refused a role change.
C12_Witness ==
    /\ resp.op = "update_user"
    /\ resp.ctx.role = "member"
    /\ resp.code = 403

\* C23: once update_user has committed a change of a user's role away from
\* admin, every later update_user or update_organization request of that
\* user is answered Forbidden, also under an access token issued before the
\* change.
C23_RoleChangeTakesEffect ==
    [][(/\ resp' # resp
        /\ resp'.op \in AdminOps
        /\ "ctx" \in DOMAIN resp'
        /\ users[resp'.ctx.user_id].role # "admin")
          => resp'.code = 403]_vars

-----------------------------------------------------------------------------
(* Specification of the rejections: requests by id across organizations,
   requests under a demoted role and logins with a wrong password, between
   requests that succeed. *)

NextReject ==
    \/ \E password_ok \in BOOLEAN : Login([email |-> <<"a">>], password_ok)
    \/ GetDbCommit(TRUE)
    \/ \E ctx \in Contexts :
        \/ UpdateUser(ctx, "u1", [role |-> "member"])
        \/ /\ next_id.task < MaxTenantTasks
           /\ \E title \in {NoText, <<"a">>} :
                 CreateTask(ctx, [BaseTask EXCEPT !.title = title])
        \/ \E id \in TenantTaskIds : UpdateTask(ctx, id, [title |-> <<"b">>])
        \/ \E id \in TenantTaskIds : DeleteTask(ctx, id)
        \/ /\ next_id.document < MaxTenantDocs
           /\ UploadDocument(ctx, TenantFile, NoText, NoText, NULL, NULL, TRUE)
        \/ \E id \in TenantDocumentIds : DeleteDocument(ctx, id, TRUE)

SpecReject == InitStore /\ [][NextReject]_vars

\* Unauthenticated, Forbidden, NotFound, ValidationError
RejectionCodes == {401, 403, 404, 422}

\* C13: a request that ends in Unauthenticated, Forbidden, NotFound or
\* ValidationError leaves the relational store and the blob store exactly as
\* they were before it.
C13_NoSideEffectsOnRejection ==
    [][(resp' # resp /\ resp'.code \in RejectionCodes)
          => UNCHANGED <<store, blobs>>]_vars

\* A delete of another organization's document was answered NotFound while
\* the document and its blob are stored.
C13_Witness ==
    /\ resp.op = "delete_document"
    /\ resp.code = 404
    /\ resp.id \in DOMAIN documents
    /\ documents[resp.id].file_key \in blobs

-----------------------------------------------------------------------------
(* Token types: routers/auth.py refresh_token, and the bearer dependency
   get_current_user of core/security.py *)

\* refresh_token without the test of the payload's type
refresh_token_any_type(payload) ==
    IF payload.sub \notin DOMAIN users
    THEN /\ Served([op |-> "refresh_token", code |-> 401,
                    request |-> [refresh_token |-> payload]])
         /\ UNCHANGED session
    ELSE LET row == [users[payload.sub] EXCEPT
                        !.role = role_value(users[payload.sub].role, TRUE)]
         IN /\ session' = [pc |-> "returned", op |-> "refresh_token",
                           request |-> [refresh_token |-> payload],
                           organizations |-> << >>, users |-> << >>,
                           issued |-> {token_data(payload.sub, row, t) :
                                          t \in {"access", "refresh"}}]
            /\ UNCHANGED resp

\* refresh_token issuing from the claims of the presented token.
refresh_token_from_payload(payload) ==
    IF payload.type # "refresh"
    THEN /\ Served([op |-> "refresh_token", code |-> 401,
                    request |-> [refresh_token |-> payload]])
         /\ UNCHANGED session
    ELSE /\ session' = [pc |-> "returned", op |-> "refresh_token",
                        request |-> [refresh_token |-> payload],
                        organizations |-> << >>, users |-> << >>,
                        issued |-> {[payload EXCEPT !.type = t] :
                                       t \in {"access", "refresh"}}]
         /\ UNCHANGED resp

\* refresh_token on the decoded payload of the presented token
refresh_token(payload) ==
    IF payload.type # "refresh"
    THEN \* "Invalid token type"
         /\ Served([op |-> "refresh_token", code |-> 401,
                    request |-> [refresh_token |-> payload]])
         /\ UNCHANGED session
    ELSE IF payload.sub \notin DOMAIN users
    THEN \* "User not found"
         /\ Served([op |-> "refresh_token", code |-> 401,
                    request |-> [refresh_token |-> payload]])
         /\ UNCHANGED session
    ELSE LET row == [users[payload.sub] EXCEPT
                        !.role = role_value(users[payload.sub].role, TRUE)]
         IN /\ session' = [pc |-> "returned", op |-> "refresh_token",
                           request |-> [refresh_token |-> payload],
                           organizations |-> << >>, users |-> << >>,
                           issued |-> {token_data(payload.sub, row, t) :
                                          t \in {"access", "refresh"}}]
            /\ UNCHANGED resp

RefreshToken(payload) ==
    /\ session = NoSession
    /\ refresh_token(payload)
    /\ UNCHANGED <<backend, now, store, blobs, next_id, tokens>>

\* GET /users/me under a bearer token: Depends(get_current_user) answers 401
\* to a token that is not an access token, before the handler runs.
BearerGetCurrentUserInfo(payload) ==
    IF payload.type = "access"
    THEN GetCurrentUserInfo(current_user(payload))
    ELSE /\ Served([op |-> "get_current_user", code |-> 401, token |-> payload])
         /\ UNCHANGED <<backend, now, store, blobs, next_id, tokens, session>>

TokenRoles == {"admin", "member"}

NextTokens ==
    \/ \E payload \in tokens : RefreshToken(payload)
    \/ \E payload \in tokens : BearerGetCurrentUserInfo(payload)
    \/ \E password_ok \in BOOLEAN : Login([email |-> <<"a">>], password_ok)
    \/ \E commit_ok \in BOOLEAN : GetDbCommit(commit_ok)
    \/ \E ctx \in Contexts, id \in {"u1", "u2"}, role \in TokenRoles :
          UpdateUser(ctx, id, [role |-> role])

SpecTokens == InitStore /\ [][NextTokens]_vars

\* C14: a token that is not a refresh token, presented to POST /auth/refresh,
\* is answered Unauthenticated and no tokens are issued for it; a refresh
\* token presented where an access token is required is answered
\* Unauthenticated and the operation does not run.
C14_TokenTypeSeparation ==
    [][/\ (resp' # resp /\ resp'.op = "refresh_token"
              /\ resp'.request.refresh_token.type # "refresh")
          => (resp'.code = 401 /\ UNCHANGED <<tokens, session, store>>)
       /\ (session' # session /\ session'.pc # "idle"
              /\ session'.op = "refresh_token")
          => session'.request.refresh_token.type = "refresh"
       /\ (resp' # resp /\ "token" \in DOMAIN resp' /\ resp'.token.type = "refresh")
          => (resp'.code = 401 /\ UNCHANGED <<tokens, session, store>>)
       /\ (resp' # resp /\ "ctx" \in DOMAIN resp')
          => \E t \in tokens : t.type = "access" /\ current_user(t) = resp'.ctx]_vars

\* An access token was presented to POST /auth/refresh and refused, in a
\* state where tokens of a later role have been issued.
C14_Witness ==
    /\ resp.op = "refresh_token"
    /\ resp.code = 401
    /\ resp.request.refresh_token.type = "access"
    /\ \E t \in tokens : t.role = "member"

-----------------------------------------------------------------------------
(* Specification of the catalog: the adoption records of both organizations
   updated, read and listed, next to operations on tasks, documents, users
   and organizations. *)

AdoptionUpdates ==
    {[status |-> "completed"], [status |-> "not_started"], [notes |-> <<"b">>],
     [is_applicable |-> FALSE]}

NextCatalog ==
    \E ctx \in Contexts :
        \/ \E id \in DOMAIN org_controls, request \in AdoptionUpdates :
              UpdateControl(ctx, id, request)
        \/ \E id \in DOMAIN org_controls : GetControl(ctx, id)
        \/ \E category \in {NULL, "A.5"} : ListControls(ctx, NULL, category, NoText)
        \/ /\ next_id.task < MaxTenantTasks
           /\ CreateTask(ctx, [BaseTask EXCEPT !.control_id = "c1"])
        \/ \E id \in TenantTaskIds : DeleteTask(ctx, id)
        \/ /\ next_id.document < MaxTenantDocs
           /\ UploadDocument(ctx, TenantFile, NoText, NoText, "c2", NULL, TRUE)
        \/ \E id \in TenantDocumentIds : DeleteDocument(ctx, id, TRUE)
        \/ UpdateOrganization(ctx, [name |-> <<"c">>])
        \/ UpdateUser(ctx, ctx.user_id, [name |-> <<"c">>])

SpecCatalog == InitStore /\ [][NextCatalog]_vars

\* The fields of an adoption record that update_control may set, with the
\* timestamp the database maintains.
AdoptionFields == {"status", "is_applicable", "notes", "updated_at"}

\* C20: no operation inserts, updates or deletes a row of the control
\* catalog; update_control changes at most the adoption record it names, only
\* when that record belongs to the caller's organization and only in status,
\* is_applicable and notes; no operation adds or removes adoption records.
C20_CatalogImmutable ==
    [][/\ controls' = controls
       /\ DOMAIN org_controls' = DOMAIN org_controls
       /\ \A oc \in DOMAIN org_controls :
             org_controls'[oc] # org_controls[oc] =>
                /\ resp'.op = "update_control"
                /\ resp'.id = oc
                /\ org_controls[oc].organization_id = resp'.ctx.organization_id
                /\ \A f \in DOMAIN org_controls[oc] \ AdoptionFields :
                      org_controls'[oc][f] = org_controls[oc][f]]_vars

\* update_control on the caller's own adoption record was answered, after
\* tasks and documents naming controls were created.
C20_Witness ==
    /\ resp.op = "update_control"
    /\ resp.code = 200
    /\ org_controls[resp.id].organization_id = resp.ctx.organization_id
    /\ \E t \in DOMAIN tasks : tasks[t].control_id = "c1"
    /\ \E d \in DOMAIN documents : documents[d].control_id = "c2"

-----------------------------------------------------------------------------
(* Concurrent partial updates: update_task and update_document, each under
   its own session of get_db (db/database.py).  The session variable holds
   the transactions of the requests in flight; the tables hold what is
   committed. *)

ConcurrentRequests == {"r1", "r2"}

\* The committed table a transaction works on.
table_of(txn) == IF txn.op = "update_task" THEN tasks ELSE documents

\* Another transaction has flushed an UPDATE of the same row and has neither
\* committed nor rolled back: the row is locked and the flush waits.
row_locked(r) ==
    \E o \in ConcurrentRequests \ {r} :
        /\ session.txn[o].pc \in {"returned", "raised"}
        /\ session.txn[o].op = session.txn[r].op
        /\ session.txn[o].id = session.txn[r].id
        /\ DOMAIN session.txn[o].writes # {}

\* The update schema of the handler.
update_fields(txn) ==
    IF txn.op = "update_task" THEN TaskUpdateFields ELSE DocumentUpdateFields

\* The response model of the handler, built from the returned object.
updated_response(txn, object) ==
    IF txn.op = "update_task" THEN TaskResponse(txn.id, object)
    ELSE DocumentResponse(txn.id, object)

\* Two requests arrive; each gets its own session from get_db.
BeginConcurrent(op, id, calls) ==
    /\ session = NoSession
    /\ id \in DOMAIN (IF op = "update_task" THEN tasks ELSE documents)
    /\ session' = [pc |-> "concurrent", op |-> op,
                   initial |-> (IF op = "update_task" THEN tasks[id] ELSE documents[id]),
                   order |-> << >>,
                   txn |-> [r \in ConcurrentRequests |->
                              [pc |-> "start", op |-> op, id |-> id,
                               ctx |-> calls[r].ctx, request |-> calls[r].request,
                               code |-> 0]]]
    /\ UNCHANGED <<backend, now, store, blobs, next_id, tokens, resp>>

\* result = await db.execute(select(...)); the 404 when nothing is found
TxnLoad(r) ==
    /\ session.pc = "concurrent"
    /\ session.txn[r].pc = "start"
    /\ LET txn == session.txn[r]
           table == table_of(txn)
       IN IF txn.id \in DOMAIN table
             /\ table[txn.id].organization_id = txn.ctx.organization_id
          THEN /\ session' = [session EXCEPT
                                !.txn[r] = [txn @@ [old |-> table[txn.id]]
                                               EXCEPT !.pc = "loaded"]]
               /\ UNCHANGED resp
          ELSE /\ session' = [session EXCEPT !.txn[r].pc = "done",
                                             !.txn[r].code = 404]
               /\ Served([op |-> txn.op, ctx |-> txn.ctx, code |-> 404, id |-> txn.id])
    /\ UNCHANGED <<backend, now, store, blobs, next_id, tokens>>

\* setattr for every supplied field, await db.flush() and the serialization
\* of the returned object.  The UPDATE names the attributes whose value
\* differs from the loaded one, and updated_at.
TxnFlush(r) ==
    /\ session.pc = "concurrent"
    /\ session.txn[r].pc = "loaded"
    /\ LET txn == session.txn[r]
           object == apply_update(txn.old, model_dump(txn.request, update_fields(txn)))
           changed == {f \in DOMAIN object : object[f] # txn.old[f]}
           writes == IF changed = {} THEN << >>
                     ELSE [f \in changed \cup {"updated_at"} |->
                              IF f = "updated_at" THEN now ELSE object[f]]
       IN /\ changed # {} => ~row_locked(r)
          /\ session' = [session EXCEPT
                           !.txn[r] = [txn @@ [writes |-> writes]
                              EXCEPT !.pc =
                                 IF serialize_fails(updated_response(txn, object),
                                                    expired_after_flush(txn.old, object))
                                 THEN "raised" ELSE "returned"]]
    /\ UNCHANGED <<backend, now, store, blobs, next_id, tokens, resp>>

\* get_db after the handler returned: await session.commit()
TxnCommit(r) ==
    /\ session.pc = "concurrent"
    /\ session.txn[r].pc = "returned"
    /\ LET txn == session.txn[r]
           table == table_of(txn)
           written == IF txn.id \in DOMAIN table
                      THEN [table EXCEPT ![txn.id] = txn.writes @@ @]
                      ELSE table
       IN /\ tasks' = IF txn.op = "update_task" THEN written ELSE tasks
          /\ documents' = IF txn.op = "update_document" THEN written ELSE documents
          /\ session' = [session EXCEPT !.txn[r].pc = "done", !.txn[r].code = 200,
                                        !.order = Append(@, r)]
          /\ Served([op |-> txn.op, ctx |-> txn.ctx, code |-> 200, id |-> txn.id,
                     request |-> txn.request, before |-> txn.old])
    /\ UNCHANGED <<backend, now, organizations, users, controls, org_controls,
                   blobs, next_id, tokens>>

\* get_db after the handler raised: await session.rollback(); raise
TxnRollback(r) ==
    /\ session.pc = "concurrent"
    /\ session.txn[r].pc = "raised"
    /\ LET txn == session.txn[r]
       IN /\ session' = [session EXCEPT !.txn[r].pc = "done", !.txn[r].code = 500,
                                        !.order = Append(@, r)]
          /\ Served([op |-> txn.op, ctx |-> txn.ctx, code |-> 500, id |-> txn.id,
                     request |-> txn.request, before |-> txn.old])
    /\ UNCHANGED <<backend, now, store, blobs, next_id, tokens>>

-----------------------------------------------------------------------------
(* Specification of the concurrent updates: one task and one document are
   created, then two partial updates of the same record run interleaved. *)

ConcurrentTaskUpdates ==
    {[title |-> <<"b">>], [title |-> <<"a">>], [priority |-> "high"],
     [title |-> <<"b">>, priority |-> "low"]}

ConcurrentDocumentUpdates ==
    {[name |-> <<"b">>], [name |-> <<"a">>], [description |-> <<"b">>],
     [name |-> <<"b">>, description |-> <<"c">>]}

ConcurrentCalls(requests) ==
    [ConcurrentRequests -> [ctx : Contexts, request : requests]]

NextConcurrent ==
    \/ now < MaxNow /\ Tick
    \/ \E ctx \in Contexts :
        \/ session = NoSession /\ next_id.task < MaxTenantTasks /\ CreateTask(ctx, BaseTask)
        \/ /\ session = NoSession
           /\ next_id.document < MaxTenantDocs
           /\ UploadDocument(ctx, TenantFile, NoText, NoText, NULL, NULL, TRUE)
    \/ \E id \in TenantTaskIds, calls \in ConcurrentCalls(ConcurrentTaskUpdates) :
          BeginConcurrent("update_task", id, calls)
    \/ \E id \in TenantDocumentIds, calls \in ConcurrentCalls(ConcurrentDocumentUpdates) :
          BeginConcurrent("update_document", id, calls)
    \/ \E r \in ConcurrentRequests :
          TxnLoad(r) \/ TxnFlush(r) \/ TxnCommit(r) \/ TxnRollback(r)

SpecConcurrent == InitStore /\ [][NextConcurrent]_vars

\* Both requests of the round have been answered.
ConcurrentDone ==
    /\ session # NoSession
    /\ session.pc = "concurrent"
    /\ \A r \in ConcurrentRequests : session.txn[r].pc = "done"

\* The last request of the order that supplied field f, NULL when none did.
RECURSIVE LastSupplier(_, _)
LastSupplier(order, f) ==
    IF order = << >> THEN NULL
    ELSE IF f \in DOMAIN session.txn[order[Len(order)]].request
         THEN order[Len(order)]
         ELSE LastSupplier(SubSeq(order, 1, Len(order) - 1), f)

\* C17: after two concurrent partial updates of the same record, each of
\* which loads the record, assigns its supplied fields, flushes and commits,
\* the record holds for every field the value supplied by the request that
\* committed last among those that supplied the field, and a field nobody
\* supplied keeps its value.
C17_FieldLastWriterWins ==
    ConcurrentDone =>
        LET final == IF session.op = "update_task" THEN tasks[session.txn["r1"].id]
                     ELSE documents[session.txn["r1"].id]
        IN /\ \A r \in ConcurrentRequests :
                 session.txn[r].code # 404 => session.txn[r].code = 200
           /\ \A f \in DOMAIN final \ {"updated_at"} :
                 LET last == LastSupplier(session.order, f)
                 IN final[f] = IF last = NULL THEN session.initial[f]
                               ELSE session.txn[last].request[f]

-----------------------------------------------------------------------------
(* Organization statistics: routers/organizations.py get_organization_stats *)

\* timedelta(days=30)
ExpiringDays == 30

\* SUM(IF(column = value, 1, 0)) WHERE organization_id = org_id
sum_if(table, org_id, field, value) ==
    Cardinality({r \in DOMAIN table : /\ table[r].organization_id = org_id
                                       /\ table[r][field] = value})

\* column < :param and column <= :param on a DateTime column: the stored
\* wall clock against the wall clock of the bound value; NULL never matches.
sql_before(column, param) == column # NoDate /\ column.wall < param
sql_not_after(column, param) == column # NoDate /\ column.wall <= param

\* if_ok: whether the database has a function named if (MySQL has; SQLite
\* has from 3.48 on, before that "no such function: if").
get_organization_stats(ctx, if_ok) ==
    LET org_id == ctx.organization_id
        of_org(table) == {r \in DOMAIN table : table[r].organization_id = org_id}
    IN
    IF ~if_ok
    THEN Served(HttpError("get_organization_stats", ctx, 500))
    ELSE Served([op |-> "get_organization_stats", ctx |-> ctx, code |-> 200,
                 at |-> now,
                 body |->
                   [total_controls |-> Cardinality(of_org(org_controls)),
                    completed_controls |-> sum_if(org_controls, org_id, "status", "completed"),
                    in_progress_controls |-> sum_if(org_controls, org_id, "status", "in_progress"),
                    not_started_controls |-> sum_if(org_controls, org_id, "status", "not_started"),
                    total_tasks |-> Cardinality(of_org(tasks)),
                    completed_tasks |-> sum_if(tasks, org_id, "status", "done"),
                    overdue_tasks |->
                        Cardinality({t \in of_org(tasks) :
                                        /\ tasks[t].status # "done"
                                        /\ sql_before(tasks[t].due_date, now)}),
                    total_documents |-> Cardinality(of_org(documents)),
                    expiring_documents |->
                        Cardinality({d \in of_org(documents) :
                                        sql_not_after(documents[d].expires_at,
                                                      now + ExpiringDays * HoursPerDay)})]])

GetOrganizationStats(ctx, if_ok) ==
    /\ get_organization_stats(ctx, if_ok)
    /\ UNCHANGED <<backend, now, store, blobs, next_id, tokens, session>>

-----------------------------------------------------------------------------
(* Specification of the statistics: tasks and documents of both
   organizations with due dates and expiry dates around the clock, and the
   statistics read on both back ends. *)

MaxStatsTasks == 2
MaxStatsDocs == 1

StatsTaskCreates ==
    {[BaseTask EXCEPT !.status = st, !.due_date = due] :
        st \in {"todo", "done"}, due \in {NoDate, Utc(1), Utc(2)}}

StatsExpiries == {NoDate, Utc(MaxNow + ExpiringDays * HoursPerDay)}

NextStats ==
    \/ now < MaxNow /\ Tick
    \/ \E ctx \in Contexts :
        \/ next_id.task < MaxStatsTasks
              /\ \E request \in StatsTaskCreates : CreateTask(ctx, request)
        \/ /\ next_id.document < MaxStatsDocs
           /\ UploadDocument(ctx, TenantFile, NoText, NoText, NULL, NULL, TRUE)
        \/ \E expires_at \in StatsExpiries :
              UpdateDocument(ctx, document_id_of(1), [expires_at |-> expires_at])
        \/ \E if_ok \in (IF backend = "mysql" THEN {TRUE} ELSE BOOLEAN) :
              GetOrganizationStats(ctx, if_ok)

SpecStats == InitStore /\ [][NextStats]_vars

\* The rows of a table that belong to an organization.
RowsOf(table, org_id) == {r \in DOMAIN table : table[r].organization_id = org_id}

\* C18: get_organization_stats answers, for the caller's organization at the
\* instant of the request: total_tasks, its tasks; completed_tasks, those
\* done; overdue_tasks, those not done and due before now; the adoption
\* records in total and by status; total_documents, its documents;
\* expiring_documents, those whose expiry is set and at most now + 30 days.
C18_OrganizationStats ==
    resp.op = "get_organization_stats" =>
        /\ resp.code = 200
        /\ resp.at = now =>
            LET o == resp.ctx.organization_id
                b == resp.body
                T == RowsOf(tasks, o)
                D == RowsOf(documents, o)
                A == RowsOf(org_controls, o)
            IN /\ b.total_tasks = Cardinality(T)
               /\ b.completed_tasks = Cardinality({t \in T : tasks[t].status = "done"})
               /\ b.overdue_tasks =
                     Cardinality({t \in T : /\ tasks[t].status # "done"
                                            /\ tasks[t].due_date # NoDate
                                            /\ Instant(tasks[t].due_date) < now})
               /\ b.completed_tasks + b.overdue_tasks <= b.total_tasks
               /\ b.total_controls = Cardinality(A)
               /\ \A st \in {"completed", "in_progress", "not_started"} :
                     b[st \o "_controls"] =
                        Cardinality({a \in A : org_controls[a].status = st})
               /\ b.completed_controls + b.in_progress_controls
                     + b.not_started_controls <= b.total_controls
               /\ b.total_documents = Cardinality(D)
               /\ b.expiring_documents =
                     Cardinality({d \in D :
                        /\ documents[d].expires_at # NoDate
                        /\ Instant(documents[d].expires_at)
                              <= now + ExpiringDays * HoursPerDay})
               /\ b.expiring_documents <= b.total_documents

-----------------------------------------------------------------------------
(* D-day arithmetic: routers/tasks.py calculate_dday *)

\* due_date.replace(tzinfo=timezone.utc) if due_date.tzinfo is None else due_date
dday_due(due_date) ==
    IF due_date.aware THEN due_date ELSE Utc(due_date.wall)

\* x.replace(hour=0, minute=0, second=0, microsecond=0): the wall-clock
\* reading is truncated in the zone the value carries.
replace_midnight(dt) ==
    DT((dt.wall \div HoursPerDay) * HoursPerDay, dt.aware, dt.off)

\* (due_date_only - now_date).days: aware subtraction, floored to whole days.
dday_diff(due_date, now_utc) ==
    LET now_date == replace_midnight(Utc(now_utc))
        due_date_only == replace_midnight(dday_due(due_date))
    IN (Instant(due_date_only) - Instant(now_date)) \div HoursPerDay

calculate_dday_overdue_today(due_date, now_utc) ==
    IF due_date = NoDate THEN [dday |-> NULL, is_overdue |-> FALSE]
    ELSE LET diff == dday_diff(due_date, now_utc) IN
         IF diff > 0 THEN [dday |-> "D-" \o ToString(diff), is_overdue |-> FALSE]
         ELSE IF diff = 0 THEN [dday |-> "D-Day", is_overdue |-> TRUE]
         ELSE [dday |-> "D+" \o ToString(Abs(diff)), is_overdue |-> TRUE]

calculate_dday(due_date, now_utc) ==
    IF due_date = NoDate THEN [dday |-> NULL, is_overdue |-> FALSE]
    ELSE LET diff == dday_diff(due_date, now_utc) IN
         IF diff = 0 THEN [dday |-> "D-Day", is_overdue |-> FALSE]
         ELSE IF diff > 0 THEN [dday |-> "D-" \o ToString(diff), is_overdue |-> FALSE]
         ELSE [dday |-> "D+" \o ToString(Abs(diff)), is_overdue |-> TRUE]

\* One evaluation of calculate_dday at the current instant.
CalculateDday(due_date) ==
    /\ resp' = [op |-> "calculate_dday", due |-> due_date, now |-> now,
                result |-> calculate_dday(due_date, now)]
    /\ UNCHANGED <<backend, now, store, blobs, next_id, tokens, session>>

\* Bounds of the D-day specification: instants of days 0 .. MaxDay.
MaxDay == 6
DdayOffsets == {9, -5}
DdayHours == 0 .. ((MaxDay + 1) * HoursPerDay - 1)
DdayInputs ==
    {NoDate}
    \cup {Naive(w) : w \in DdayHours}
    \cup {Utc(w) : w \in DdayHours}
    \cup {DT(w, TRUE, o) : w \in DdayHours, o \in DdayOffsets}

InitDday ==
    /\ backend \in {"sqlite", "mysql"}
    /\ now \in DdayHours
    /\ organizations = << >>
    /\ users = << >>
    /\ controls = << >>
    /\ org_controls = << >>
    /\ tasks = << >>
    /\ documents = << >>
    /\ blobs = {}
    /\ next_id = [task |-> 0, document |-> 0, organization |-> 0, user |-> 0]
    /\ tokens = {}
    /\ session = NoSession
    /\ resp = NoResp

\* Each behaviour evaluates the function once, on one (now, due_date) pair.
NextDday == resp = NoResp /\ \E due_date \in DdayInputs : CalculateDday(due_date)

SpecDday == InitDday /\ [][NextDday]_vars

\* C5: for every non-null due timestamp and every current instant,
\* calculate_dday uses diff = (UTC calendar day of due) - (UTC calendar day
\* of now); a due timestamp on today's UTC date yields diff = 0.
C5_DiffIsUtcDayDifference ==
    (resp.op = "calculate_dday" /\ resp.due # NoDate) =>
        /\ dday_diff(resp.due, resp.now) = UtcDay(resp.due) - UtcDay(Utc(resp.now))
        /\ (UtcDay(resp.due) = UtcDay(Utc(resp.now)) => resp.result.dday = "D-Day")

\* C6: calculate_dday maps the day difference to (label, is_overdue):
\* 0 -> ("D-Day", false), diff > 0 -> ("D-<diff>", false),
\* diff < 0 -> ("D+<|diff|>", true), null due date -> (null, false); for a
\* naive or UTC due date: today -> D-Day, in 5 days -> D-5, yesterday -> D+1
\* and overdue.
C6_DdayLabelling ==
    resp.op = "calculate_dday" =>
        IF resp.due = NoDate
        THEN resp.result.dday = NULL /\ resp.result.is_overdue = FALSE
        ELSE LET diff == dday_diff(resp.due, resp.now)
                 days == UtcDay(resp.due) - UtcDay(Utc(resp.now))
             IN /\ diff = 0 => resp.result.dday = "D-Day"
                /\ diff > 0 => resp.result.dday = "D-" \o ToString(diff)
                /\ diff < 0 => resp.result.dday = "D+" \o ToString(0 - diff)
                /\ resp.result.is_overdue = (diff < 0)
                /\ resp.due.off = 0 =>
                     /\ days = 0 => resp.result = [dday |-> "D-Day", is_overdue |-> FALSE]
                     /\ days = 5 => resp.result = [dday |-> "D-5", is_overdue |-> FALSE]
                     /\ days = -1 => resp.result = [dday |-> "D+1", is_overdue |-> TRUE]

C6_Witness ==
    /\ resp.op = "calculate_dday"
    /\ resp.due # NoDate
    /\ resp.due.off = 0
    /\ UtcDay(resp.due) - UtcDay(Utc(resp.now)) = -1
    /\ resp.result = [dday |-> "D+1", is_overdue |-> TRUE]

-----------------------------------------------------------------------------
(* Upcoming tasks: routers/tasks.py list_upcoming_tasks *)

\* The WHERE clauses with the status clause left out.
list_upcoming_query_any_status(ctx, days) ==
    {t \in DOMAIN tasks :
        /\ tasks[t].organization_id = ctx.organization_id
        /\ sql_not_after(tasks[t].due_date, now + days * HoursPerDay)}

\* WHERE organization_id = org_id AND status != 'done'
\*   AND due_date IS NOT NULL AND due_date <= now + timedelta(days=days)
list_upcoming_query(ctx, days) ==
    {t \in DOMAIN tasks :
        /\ tasks[t].organization_id = ctx.organization_id
        /\ tasks[t].status # "done"
        /\ tasks[t].due_date # NoDate
        /\ sql_not_after(tasks[t].due_date, now + days * HoursPerDay)}

\* TaskWithDdayResponse of a loaded row
TaskWithDdayResponse(id, row) ==
    LET result == calculate_dday(row.due_date, now)
    IN [task |-> TaskResponse(id, row), dday |-> result.dday,
        is_overdue |-> result.is_overdue]

\* days: int = Query(default=7, ge=1, le=30)
list_upcoming_tasks(ctx, days) ==
    IF days < 1 \/ days > 30
    THEN Served(HttpError("list_upcoming_tasks", ctx, 422))
    ELSE LET found == tasks_by_due_date(list_upcoming_query(ctx, days))
         IN Served([op |-> "list_upcoming_tasks", ctx |-> ctx, code |-> 200,
                    days |-> days,
                    body |-> [i \in 1..Len(found) |->
                                 TaskWithDdayResponse(found[i], tasks[found[i]])]])

ListUpcomingTasks(ctx, days) ==
    /\ list_upcoming_tasks(ctx, days)
    /\ UNCHANGED <<backend, now, store, blobs, next_id, tokens, session>>

-----------------------------------------------------------------------------
(* Specification of the upcoming tasks: tasks of both organizations, done
   and not, due before, inside and after the window, listed as the clock
   advances. *)

MaxUpcomingTasks == 2

UpcomingTaskCreates ==
    {[BaseTask EXCEPT !.due_date = due] :
        due \in {NoDate, Utc(0 - 1), Utc(HoursPerDay + 2), Utc(4 * HoursPerDay)}}
    \cup {[BaseTask EXCEPT !.status = "done", !.due_date = Utc(0 - 1)]}

UpcomingDays == {0, 1, 2, 31}

NextUpcoming ==
    \/ now < MaxNow /\ Tick
    \/ \E ctx \in Contexts :
        \/ next_id.task < MaxUpcomingTasks
              /\ \E request \in UpcomingTaskCreates : CreateTask(ctx, request)
        \/ \E days \in UpcomingDays : ListUpcomingTasks(ctx, days)

SpecUpcoming == InitStore /\ [][NextUpcoming]_vars

\* The D-day label of a stored due date, read as UTC, on the UTC day of now.
UpcomingLabel(due_date) ==
    LET days == UtcDay(due_date) - UtcDay(Utc(now))
    IN IF days = 0 THEN "D-Day"
       ELSE IF days > 0 THEN "D-" \o ToString(days)
       ELSE "D+" \o ToString(0 - days)

\* C19: list_upcoming_tasks with days in 1..30 returns exactly the caller
\* organization's tasks that are not done and whose due date is set and at
\* most now + days, overdue ones included, in ascending order of due date,
\* each with the D-day label of its due date; a task that is done or has no
\* due date is never returned.
C19_ListUpcoming ==
    [][(resp' # resp /\ resp'.op = "list_upcoming_tasks" /\ resp'.code = 200) =>
          LET body == resp'.body
              ids == {body[i].task.id : i \in DOMAIN body}
          IN /\ resp'.days \in 1..30
             /\ Cardinality(ids) = Len(body)
             /\ ids = {t \in DOMAIN tasks :
                          /\ tasks[t].organization_id = resp'.ctx.organization_id
                          /\ tasks[t].status # "done"
                          /\ tasks[t].due_date # NoDate
                          /\ Instant(tasks[t].due_date)
                                <= now + resp'.days * HoursPerDay}
             /\ \A i, j \in DOMAIN body :
                   i < j => Instant(body[i].task.due_date)
                               <= Instant(body[j].task.due_date)
             /\ \A i \in DOMAIN body :
                   /\ body[i].task = TaskResponse(body[i].task.id, tasks[body[i].task.id])
                   /\ body[i].dday = UpcomingLabel(body[i].task.due_date)
                   /\ body[i].is_overdue
                         = (UtcDay(body[i].task.due_date) < UtcDay(Utc(now)))]_vars

\* An overdue task was returned with its label while a done task with the
\* same due date was left out.
C19_Witness ==
    /\ resp.op = "list_upcoming_tasks"
    /\ resp.code = 200
    /\ Len(resp.body) = 1
    /\ resp.body[1].dday = "D+1"
    /\ resp.body[1].is_overdue
    /\ \E t \in DOMAIN tasks :
          /\ tasks[t].organization_id = resp.ctx.organization_id
          /\ tasks[t].status = "done"
          /\ tasks[t].due_date = resp.body[1].task.due_date

-----------------------------------------------------------------------------
(* The assistant: services/gemini.py GeminiService.  The singleton's fields
   _initialized and _model are kept in the session variable; a text is a
   sequence of characters, None of a text is NoText. *)

\* None of analyze_document and suggest_tasks
NoResult == [kind |-> "none"]

\* The singleton before its first use: GeminiService.__init__
GeminiService == [pc |-> "gemini", initialized |-> FALSE, model |-> FALSE]

\* str.find(ch) and str.rfind(ch): the first and the last 0-based index of
\* the character, -1 when it does not occur.
find(text, ch) ==
    LET at == {i \in 1..Len(text) : text[i] = ch}
    IN IF at = {} THEN 0 - 1 ELSE (CHOOSE i \in at : \A j \in at : i <= j) - 1

rfind(text, ch) ==
    LET at == {i \in 1..Len(text) : text[i] = ch}
    IN IF at = {} THEN 0 - 1 ELSE (CHOOSE i \in at : \A j \in at : i >= j) - 1

\* response[start:end] with 0 <= start < end <= len
slice(text, start, end) == SubSeq(text, start + 1, end)

\* json.loads on a text over the characters { } [ ] and letters: {} is the
\* empty object, [] the empty array, [v] an array of one value; anything
\* else raises JSONDecodeError (kind "error").
RECURSIVE json_loads(_)
json_loads(text) ==
    IF text = <<"{", "}">> THEN [kind |-> "dict"]
    ELSE IF Len(text) >= 2 /\ text[1] = "[" /\ text[Len(text)] = "]"
    THEN IF Len(text) = 2 THEN [kind |-> "list", items |-> << >>]
         ELSE LET item == json_loads(SubSeq(text, 2, Len(text) - 1))
              IN IF item.kind = "error" THEN item
                 ELSE [kind |-> "list", items |-> <<item>>]
    ELSE [kind |-> "error"]

\* _initialize: configured is whether settings.GCP_PROJECT_ID is set,
\* init_ok whether genai.configure and GenerativeModel return.
gemini_initialize(service, configured, init_ok) ==
    IF service.initialized THEN service
    ELSE IF ~configured THEN service
    ELSE IF init_ok THEN [service EXCEPT !.model = TRUE, !.initialized = TRUE]
    ELSE service

\* The model property
gemini_model(service, configured, init_ok) ==
    gemini_initialize(service, configured, init_ok).model

\* generate_text with the generation outside the try block.
generate_text_unguarded(service, configured, init_ok, generation) ==
    IF ~gemini_model(service, configured, init_ok)
    THEN [raised |-> FALSE, value |-> NoText]
    ELSE IF generation.raises
    THEN [raised |-> TRUE, value |-> NoText]
    ELSE [raised |-> FALSE, value |-> generation.text]

\* generate_text: generation is what model.generate_content and
\* response.text do, raise or yield a text.
generate_text(service, configured, init_ok, generation) ==
    IF ~gemini_model(service, configured, init_ok)
    THEN [raised |-> FALSE, value |-> NoText]
    ELSE IF generation.raises
    THEN \* except Exception: return None
         [raised |-> FALSE, value |-> NoText]
    ELSE [raised |-> FALSE, value |-> generation.text]

\* The JSON between the first open and the last close character, None when
\* there is none or it does not parse.
parse_between(response, open, close) ==
    LET start == find(response, open)
        end == rfind(response, close) + 1
    IN IF start # 0 - 1 /\ end > start
       THEN LET parsed == json_loads(slice(response, start, end))
            IN IF parsed.kind = "error" THEN NoResult ELSE parsed
       ELSE NoResult

\* The body shared by analyze_document and suggest_tasks after the call of
\* generate_text: if response: ... return json.loads(...) ... return None,
\* inside try / except Exception: return None.
parse_response(generated, open, close) ==
    IF generated.raised
    THEN [raised |-> FALSE, value |-> NoResult]
    ELSE IF generated.value = NoText \/ generated.value = << >>
    THEN [raised |-> FALSE, value |-> NoResult]
    ELSE [raised |-> FALSE, value |-> parse_between(generated.value, open, close)]

\* One call of the service; the singleton keeps its initialization.
GeminiCall(op, configured, init_ok, generation) ==
    /\ session.pc = "gemini"
    /\ LET generated == generate_text(session, configured, init_ok, generation)
           result == IF op = "generate_text" THEN generated
                     ELSE IF op = "analyze_document"
                     THEN parse_response(generated, "{", "}")
                     ELSE parse_response(generated, "[", "]")
       IN /\ session' = gemini_initialize(session, configured, init_ok)
          /\ Served([op |-> op, configured |-> configured, init_ok |-> init_ok,
                     initialized |-> session.initialized,
                     generation |-> generation,
                     raised |-> result.raised, result |-> result.value])
    /\ UNCHANGED <<backend, now, store, blobs, next_id, tokens>>

GenerateText(configured, init_ok, generation) ==
    GeminiCall("generate_text", configured, init_ok, generation)

AnalyzeDocument(configured, init_ok, generation) ==
    GeminiCall("analyze_document", configured, init_ok, generation)

SuggestTasks(configured, init_ok, generation) ==
    GeminiCall("suggest_tasks", configured, init_ok, generation)

-----------------------------------------------------------------------------
(* Specification of the assistant: a call of one of the three methods, with
   every outcome of configuration, initialization and generation, and every
   generated text up to a length. *)

MaxTextLen == 4

TextChars == {"{", "}", "[", "]", "x"}

GeneratedTexts == UNION {[1..n -> TextChars] : n \in 0..MaxTextLen}

Generations ==
    {[raises |-> TRUE, text |-> << >>]}
        \cup {[raises |-> FALSE, text |-> t] : t \in GeneratedTexts}

InitGemini ==
    /\ backend = "sqlite"
    /\ now = 1
    /\ organizations = << >>
    /\ users = << >>
    /\ controls = << >>
    /\ org_controls = << >>
    /\ tasks = << >>
    /\ documents = << >>
    /\ blobs = {}
    /\ next_id = [task |-> 0, document |-> 0, organization |-> 0, user |-> 0]
    /\ tokens = {}
    /\ session \in {GeminiService,
                     gemini_initialize(GeminiService, TRUE, TRUE)}
    /\ resp = NoResp

\* Each behaviour makes one call, on a singleton that is or is not yet
\* initialized.
NextGemini ==
    /\ resp = NoResp
    /\ \E configured \in BOOLEAN, init_ok \in BOOLEAN, generation \in Generations :
          \/ GenerateText(configured, init_ok, generation)
          \/ AnalyzeDocument(configured, init_ok, generation)
          \/ SuggestTasks(configured, init_ok, generation)

SpecGemini == InitGemini /\ [][NextGemini]_vars

GeminiOps == {"generate_text", "analyze_document", "suggest_tasks"}

\* Some part of the text is a JSON value of the kind.
ContainsJson(text, kind) ==
    \E i, j \in 1..Len(text) :
        i <= j /\ json_loads(SubSeq(text, i, j)).kind = kind

\* C21: generate_text, analyze_document and suggest_tasks never raise to
\* their caller; when the model is not configured, its initialization fails
\* or the generation raises they return None, and analyze_document and
\* suggest_tasks also return None when the generated text contains no JSON
\* object, respectively no JSON array, that parses.
C21_AssistantDegradation ==
    resp.op \in GeminiOps =>
        LET unavailable == ~resp.initialized /\ (~resp.configured \/ ~resp.init_ok)
            none == IF resp.op = "generate_text" THEN resp.result = NoText
                    ELSE resp.result = NoResult
        IN /\ ~resp.raised
           /\ (unavailable \/ resp.generation.raises) => none
           /\ (resp.op = "analyze_document"
                  /\ ~ContainsJson(resp.generation.text, "dict")) => none
           /\ (resp.op = "suggest_tasks"
                  /\ ~ContainsJson(resp.generation.text, "list")) => none

\* analyze_document was given a text with braces that holds no JSON object
\* and returned None without raising.
C21_Witness ==
    /\ resp.op = "analyze_document"
    /\ resp.initialized
    /\ ~resp.generation.raises
    /\ find(resp.generation.text, "{") # 0 - 1
    /\ rfind(resp.generation.text, "}") > find(resp.generation.text, "{")
    /\ ~ContainsJson(resp.generation.text, "dict")
    /\ resp.result = NoResult
    /\ ~resp.raised

-----------------------------------------------------------------------------
(* Concurrent registration: two register requests, each under its own
   session of get_db.  The session variable holds the two transactions;
   organizations and users hold what is committed. *)

\* Another transaction has flushed a user row with the e-mail and has neither
\* committed nor rolled back: the unique index makes the INSERT wait.
email_pending(r, email) ==
    \E o \in ConcurrentRequests \ {r} :
        /\ session.txn[o].pc \in {"flush_user", "tokens", "returned", "raised"}
        /\ \E u \in DOMAIN session.txn[o].users : session.txn[o].users[u].email = email

\* Two register requests arrive.
BeginRegistrations(requests) ==
    /\ session = NoSession
    /\ session' = [pc |-> "registering", op |-> "register",
                   txn |-> [r \in ConcurrentRequests |->
                              [pc |-> "start", request |-> requests[r],
                               organizations |-> << >>, users |-> << >>,
                               code |-> 0]]]
    /\ UNCHANGED <<backend, now, store, blobs, next_id, tokens, resp>>

\* select(User).where(User.email == request.email): committed rows only
TxnRegisterCheck(r) ==
    /\ session.pc = "registering"
    /\ session.txn[r].pc = "start"
    /\ IF email_registered(session.txn[r].request.email)
       THEN /\ session' = [session EXCEPT !.txn[r].pc = "done", !.txn[r].code = 400]
            /\ Served([op |-> "register", code |-> 400,
                       request |-> session.txn[r].request,
                       organization_id |-> NULL, user_id |-> NULL])
       ELSE /\ session' = [session EXCEPT !.txn[r].pc = "flush_organization"]
            /\ UNCHANGED resp
    /\ UNCHANGED <<backend, now, store, blobs, next_id, tokens>>

\* db.add(organization); await db.flush()
TxnRegisterFlushOrganization(r) ==
    /\ session.pc = "registering"
    /\ session.txn[r].pc = "flush_organization"
    /\ LET id == organization_id_of(next_id.organization + 1)
       IN /\ next_id' = [next_id EXCEPT !.organization = @ + 1]
          /\ session' = [session EXCEPT
                           !.txn[r].organizations =
                               id :> [OrganizationRow(session.txn[r].request.organization_name)
                                        EXCEPT !.created_at = now, !.updated_at = now],
                           !.txn[r].pc = "flush_user"]
    /\ UNCHANGED <<backend, now, store, blobs, tokens, resp>>

\* db.add(user); await db.flush(): IntegrityError when a committed row has
\* the e-mail.
TxnRegisterFlushUser(r) ==
    /\ session.pc = "registering"
    /\ session.txn[r].pc = "flush_user"
    /\ ~email_pending(r, session.txn[r].request.email)
    /\ LET id == user_id_of(next_id.user + 1)
           txn == session.txn[r]
           org_id == pending_id(txn.organizations)
       IN /\ next_id' = [next_id EXCEPT !.user = @ + 1]
          /\ session' = IF email_registered(txn.request.email)
                        THEN [session EXCEPT !.txn[r].pc = "raised"]
                        ELSE [session EXCEPT
                                !.txn[r].users =
                                    id :> [[UserRow(txn.request.email, org_id)
                                              EXCEPT !.name = txn.request.name]
                                             EXCEPT !.created_at = now, !.updated_at = now],
                                !.txn[r].pc = "tokens"]
    /\ UNCHANGED <<backend, now, store, blobs, tokens, resp>>

\* token_data = {..., "role": user.role.value}
TxnRegisterTokens(r) ==
    /\ session.pc = "registering"
    /\ session.txn[r].pc = "tokens"
    /\ LET txn == session.txn[r]
           row == txn.users[pending_id(txn.users)]
       IN session' = IF role_value(row.role, FALSE) = NULL
                     THEN [session EXCEPT !.txn[r].pc = "raised"]
                     ELSE [session EXCEPT !.txn[r].pc = "returned"]
    /\ UNCHANGED <<backend, now, store, blobs, next_id, tokens, resp>>

\* get_db: commit after the handler returned, rollback after it raised
TxnRegisterEnd(r) ==
    /\ session.pc = "registering"
    /\ session.txn[r].pc \in {"returned", "raised"}
    /\ LET txn == session.txn[r]
           ok == txn.pc = "returned"
       IN /\ organizations' = IF ok THEN session_commit(organizations, txn.organizations)
                              ELSE session_rollback(organizations, txn.organizations)
          /\ users' = IF ok THEN session_commit(users, txn.users)
                      ELSE session_rollback(users, txn.users)
          /\ tokens' = IF ok
                       THEN tokens \cup {token_data(pending_id(txn.users),
                                                   txn.users[pending_id(txn.users)], t) :
                                            t \in {"access", "refresh"}}
                       ELSE tokens
          /\ session' = [session EXCEPT !.txn[r].pc = "done",
                                        !.txn[r].code = IF ok THEN 200 ELSE 500]
          /\ Served([op |-> "register", code |-> IF ok THEN 200 ELSE 500,
                     request |-> txn.request,
                     organization_id |-> pending_id(txn.organizations),
                     user_id |-> pending_id(txn.users)])
    /\ UNCHANGED <<backend, now, controls, org_controls, tasks, documents, blobs,
                   next_id>>

-----------------------------------------------------------------------------
(* Specification of the concurrent registrations: two register requests
   with the same e-mail, interleaved step by step. *)

SameEmailRequests ==
    {[r \in ConcurrentRequests |->
         [email |-> e, name |-> NoText, organization_name |-> <<"n">>]] :
        e \in {<<"a">>, <<"c">>}}

NextRegistrations ==
    \/ now < MaxNow /\ Tick
    \/ \E requests \in SameEmailRequests : BeginRegistrations(requests)
    \/ \E r \in ConcurrentRequests :
          \/ TxnRegisterCheck(r)
          \/ TxnRegisterFlushOrganization(r)
          \/ TxnRegisterFlushUser(r)
          \/ TxnRegisterTokens(r)
          \/ TxnRegisterEnd(r)

SpecRegistrations == InitStore /\ [][NextRegistrations]_vars

\* C22: after two concurrent register requests with the same e-mail, one
\* that no user had before, have both ended, at most one user has the
\* e-mail, exactly one organization was created for it, and the losing
\* request has left no organization behind.
C22_ConcurrentRegistration ==
    (/\ session # NoSession
     /\ session.pc = "registering"
     /\ \A r \in ConcurrentRequests :
           session.txn[r].pc = "done" /\ session.txn[r].code # 400)
    => LET email == session.txn["r1"].request.email
           created == DOMAIN organizations \ {"o1", "o2"}
           holders == {u \in DOMAIN users : users[u].email = email}
       IN /\ Cardinality(holders) <= 1
          /\ Cardinality(created) = 1
          /\ \A o \in created : \E u \in holders : users[u].organization_id = o

-----------------------------------------------------------------------------
(* Uploads and deletions as transactions: the handler's calls of the blob
   store take effect at once, its row changes when get_db commits.  The
   session variable holds the transactions of the requests in flight. *)

IdleTxn == [pc |-> "idle"]

\* The first request arrives: from here on get_db hands out sessions.
BeginDocuments ==
    /\ session = NoSession
    /\ session' = [pc |-> "documents", txn |-> [r \in ConcurrentRequests |-> IdleTxn]]
    /\ UNCHANGED <<backend, now, store, blobs, next_id, tokens, resp>>

\* upload_document up to its return: upload_file, db.add, db.flush.
TxnUploadDocument(r, ctx, file, put_ok) ==
    /\ session.pc = "documents"
    /\ session.txn[r] = IdleTxn
    /\ LET n == next_id.document + 1
           id == document_id_of(n)
           file_key == generate_file_key(ctx.organization_id, n)
           row == [name |-> file.filename, description |-> NoText,
                   file_key |-> file_key, file_size |-> file.size,
                   mime_type |-> DefaultMimeType, version |-> 1,
                   expires_at |-> NoDate, organization_id |-> ctx.organization_id,
                   control_id |-> NULL, task_id |-> NULL,
                   uploaded_by_id |-> ctx.user_id,
                   created_at |-> now, updated_at |-> now]
       IN IF ~put_ok
          THEN \* ClientError re-raised by upload_file; nothing was added
               /\ Served(HttpError("upload_document", ctx, 500))
               /\ UNCHANGED <<blobs, next_id, session>>
          ELSE /\ blobs' = blobs \cup {file_key}
               /\ next_id' = [next_id EXCEPT !.document = @ + 1]
               /\ session' = [session EXCEPT
                                !.txn[r] = [pc |-> "returned", op |-> "upload_document",
                                            ctx |-> ctx, id |-> id, row |-> row]]
               /\ UNCHANGED resp
    /\ UNCHANGED <<backend, now, store, tokens>>

\* delete_document up to its return: the select, delete_file, db.delete.
TxnDeleteDocument(r, ctx, document_id, delete_ok) ==
    /\ session.pc = "documents"
    /\ session.txn[r] = IdleTxn
    /\ IF ~document_in_org(document_id, ctx.organization_id)
       THEN /\ Served([op |-> "delete_document", ctx |-> ctx, code |-> 404,
                       id |-> document_id])
            /\ UNCHANGED <<blobs, session>>
       ELSE /\ blobs' = IF delete_ok
                        THEN blobs \ {documents[document_id].file_key}
                        ELSE blobs
            /\ session' = [session EXCEPT
                             !.txn[r] = [pc |-> "returned", op |-> "delete_document",
                                         ctx |-> ctx, id |-> document_id,
                                         row |-> documents[document_id]]]
            /\ UNCHANGED resp
    /\ UNCHANGED <<backend, now, store, next_id, tokens>>

\* get_db after the handler returned: await session.commit(), which also
\* flushes the pending DELETE; commit_ok is whether the database commits,
\* otherwise the except branch rolls back.  A DELETE that matches no row
\* (the row was deleted meanwhile) raises StaleDataError.
TxnDocumentEnd(r, commit_ok) ==
    /\ session.pc = "documents"
    /\ session.txn[r].pc = "returned"
    /\ LET txn == session.txn[r]
           ok == /\ commit_ok
                 /\ (txn.op = "delete_document" => txn.id \in DOMAIN documents)
       IN /\ documents' = IF ~ok THEN documents
                          ELSE IF txn.op = "upload_document"
                          THEN documents @@ (txn.id :> txn.row)
                          ELSE Remove(documents, txn.id)
          /\ Served([op |-> txn.op, ctx |-> txn.ctx,
                     code |-> IF ok THEN 200 ELSE 500, id |-> txn.id])
          /\ session' = [session EXCEPT !.txn[r] = IdleTxn]
    /\ UNCHANGED <<backend, now, organizations, users, controls, org_controls,
                   tasks, blobs, next_id, tokens>>

-----------------------------------------------------------------------------
(* Specification of the blob references: uploads and deletions of two
   requests at a time, with blob-store failures and failed commits. *)

MaxBlobDocs == 2

BlobDocumentIds == {document_id_of(n) : n \in 1..MaxBlobDocs}

NextBlobRefs ==
    \/ BeginDocuments
    \/ \E r \in ConcurrentRequests :
          \/ \E ctx \in Contexts :
                \/ /\ next_id.document < MaxBlobDocs
                   /\ \E put_ok \in BOOLEAN : TxnUploadDocument(r, ctx, TenantFile, put_ok)
                \/ \E id \in BlobDocumentIds, delete_ok \in BOOLEAN :
                      TxnDeleteDocument(r, ctx, id, delete_ok)
          \/ \E commit_ok \in BOOLEAN : TxnDocumentEnd(r, commit_ok)

SpecBlobRefs == InitStore /\ [][NextBlobRefs]_vars

\* The documents a request in flight is deleting.
BeingDeleted ==
    IF session # NoSession /\ session.pc = "documents"
    THEN {session.txn[r].id : r \in {q \in ConcurrentRequests :
                                        /\ session.txn[q] # IdleTxn
                                        /\ session.txn[q].op = "delete_document"}}
    ELSE {}

\* C24: under every interleaving of upload_document and delete_document
\* requests, with blob-store failures and failed commits, the file_key of
\* every committed document row (one that no request in flight is deleting)
\* addresses a blob that is stored.
C24_NoDanglingFileKey ==
    \A d \in DOMAIN documents \ BeingDeleted : documents[d].file_key \in blobs


\* ---------------------------------------------------------------------------
\* Ownership: creations and updates whose bodies carry an organization_id.
\* ---------------------------------------------------------------------------

\* Bodies of update requests that name another owner next to a declared field.
OwnerTaskUpdates ==
    {[organization_id |-> o] : o \in DOMAIN organizations}
    \cup {[title |-> <<"b">>, organization_id |-> o] : o \in DOMAIN organizations}
OwnerDocumentUpdates ==
    {[name |-> <<"b">>, organization_id |-> o] : o \in DOMAIN organizations}
OwnerControlUpdates ==
    {[organization_id |-> o] : o \in DOMAIN organizations}
OwnerUserUpdates ==
    {[name |-> <<"b">>, organization_id |-> o] : o \in DOMAIN organizations}

NextOwner ==
    \E ctx \in Contexts :
        \/ /\ next_id.task < MaxTenantTasks
           /\ \E o \in DOMAIN organizations :
                 CreateTask(ctx, BaseTask @@ [organization_id |-> o])
        \/ /\ next_id.document < MaxTenantDocs
           /\ UploadDocument(ctx, TenantFile, NoText, NoText, NULL, NULL, TRUE)
        \/ \E id \in TenantTaskIds, request \in OwnerTaskUpdates :
              UpdateTask(ctx, id, request)
        \/ \E id \in TenantDocumentIds, request \in OwnerDocumentUpdates :
              UpdateDocument(ctx, id, request)
        \/ \E id \in DOMAIN controls, request \in OwnerControlUpdates :
              UpdateControl(ctx, id, request)
        \/ \E id \in DOMAIN users, request \in OwnerUserUpdates :
              UpdateUser(ctx, id, request)

SpecOwner == InitStore /\ [][NextOwner]_vars

\* The rows of a table keep their owner over a step.
OwnerKept(before, after) ==
    \A id \in DOMAIN before \cap DOMAIN after :
        after[id].organization_id = before[id].organization_id

\* The rows a step adds to a table belong to the caller's organization.
OwnerFromContext(before, after, ctx) ==
    \A id \in DOMAIN after \ DOMAIN before :
        after[id].organization_id = ctx.organization_id

OverdueTaskCreates ==
    {[BaseTask EXCEPT !.due_date = due] :
        due \in {Utc(0 - 1), Utc(0), Utc(1), Utc(HoursPerDay + 2)}}

NextOverdue ==
    \/ now < MaxNow /\ Tick
    \/ \E ctx \in Contexts :
        \/ next_id.task < MaxUpcomingTasks
              /\ \E request \in OverdueTaskCreates : CreateTask(ctx, request)
        \/ \E days \in {1, 2} : ListUpcomingTasks(ctx, days)

SpecOverdue == InitStore /\ [][NextOverdue]_vars

\* C26: every task list_upcoming_tasks returns is annotated is_overdue
\* exactly when get_organization_stats and list_tasks count it as overdue at
\* the same instant: its due date is before now and it is not done.
C26_OverdueAgreement ==
    [][(resp' # resp /\ resp'.op = "list_upcoming_tasks" /\ resp'.code = 200) =>
          \A i \in DOMAIN resp'.body :
             LET row == tasks[resp'.body[i].task.id]
             IN resp'.body[i].is_overdue
                   = (row.status # "done" /\ sql_before(row.due_date, now))]_vars


\* ---------------------------------------------------------------------------
\* The task counts of the statistics beside the unfiltered task list.
\* ---------------------------------------------------------------------------

NextAgree ==
    \E ctx \in Contexts :
        \/ next_id.task < MaxStatsTasks
              /\ \E request \in StatsTaskCreates : CreateTask(ctx, request)
        \/ ListTasks(ctx, NULL, NULL, NULL, NULL, FALSE, NoText)
        \/ \E if_ok \in (IF backend = "mysql" THEN {TRUE} ELSE BOOLEAN) :
              GetOrganizationStats(ctx, if_ok)

SpecAgree == InitStore /\ [][NextAgree]_vars

\* C27: when get_organization_stats answers, the unfiltered list_tasks of
\* the same organization on the same store answers too, and total_tasks,
\* overdue_tasks and completed_tasks of the statistics equal its total, its
\* overdue_count and its by_status["done"] (0 when absent).
C27_StatsAgreeWithList ==
    ("code" \in DOMAIN resp /\ resp.op = "get_organization_stats" /\ resp.code = 200) =>
        LET listed == list_tasks(resp.ctx, NULL, NULL, NULL, NULL, FALSE, NoText)
        IN /\ listed.code = 200
           /\ resp.body.total_tasks = listed.total
           /\ resp.body.overdue_tasks = listed.overdue_count
           /\ resp.body.completed_tasks
                 = (IF "done" \in DOMAIN listed.by_status
                    THEN listed.by_status["done"] ELSE 0)


\* ---------------------------------------------------------------------------
\* What an organization reads, before and after another organization's call.
\* ---------------------------------------------------------------------------

\* The bodies the by-id and list reads of an organization are built from.
ReadsOf(org) ==
    LET of_org(table) == {r \in DOMAIN table : table[r].organization_id = org}
    IN [tasks |-> [t \in of_org(tasks) |-> TaskResponse(t, tasks[t])],
        documents |-> [d \in of_org(documents) |-> DocumentResponse(d, documents[d])],
        org_controls |-> [c \in of_org(org_controls) |-> org_controls[c]],
        users |-> [u \in of_org(users) |-> users[u]],
        organization |-> organizations[org]]

\* C28: a call served in the context of one organization leaves what every
\* other organization reads (its tasks, documents, adoption records, users
\* and organization record) as it was.
C28_TenantNonInterference ==
    [][\A org \in DOMAIN organizations :
          (resp' # resp /\ "ctx" \in DOMAIN resp' /\ resp'.ctx.organization_id # org)
             => ReadsOf(org)' = ReadsOf(org)]_vars


\* ---------------------------------------------------------------------------
\* Administrators of an organization under role updates.
\* ---------------------------------------------------------------------------

\* C29: every organization has at least one user whose role is admin, in
\* every state reached through update_user calls.
C29_OrganizationKeepsAdmin ==
    \A org \in DOMAIN organizations :
        \E u \in DOMAIN users : /\ users[u].organization_id = org
                                /\ users[u].role = "admin"


\* ---------------------------------------------------------------------------
\* Refresh after the stored user changed or went away.
\* ---------------------------------------------------------------------------

\* A refresh token issued to a user whose row has since been removed from
\* the users table.
RemovedUserTokens ==
    {[sub |-> "u9", email |-> <<"c">>, organization_id |-> "o1",
      role |-> "admin", type |-> "refresh"]}

NextRefresh ==
    \/ \E payload \in tokens \cup RemovedUserTokens : RefreshToken(payload)
    \/ \E commit_ok \in BOOLEAN : GetDbCommit(commit_ok)
    \/ \E ctx \in Contexts, id \in {"u1", "u2"}, role \in TokenRoles :
          UpdateUser(ctx, id, [role |-> role])

SpecRefresh == InitStore /\ [][NextRefresh]_vars

\* C30: the tokens POST /auth/refresh issues for a refresh token carry the
\* role and organization_id stored for its subject when the request is
\* handled, whatever the presented token carries; a refresh token whose
\* subject is not a stored user is answered 401 and nothing is issued.
C30_RefreshRereadsPrincipal ==
    [][/\ (session' # session /\ session'.pc = "returned"
              /\ session'.op = "refresh_token")
          => LET sub == session'.request.refresh_token.sub
             IN /\ sub \in DOMAIN users
                /\ session'.issued # {}
                /\ \A t \in session'.issued :
                      /\ t.sub = sub
                      /\ t.role = users[sub].role
                      /\ t.organization_id = users[sub].organization_id
       /\ (resp' # resp /\ resp'.op = "refresh_token" /\ "code" \in DOMAIN resp'
              /\ resp'.request.refresh_token.sub \notin DOMAIN users)
          => (resp'.code = 401 /\ UNCHANGED <<tokens, session, store>>)]_vars

\* A refresh token of a removed user was refused, and a refresh token that
\* carries the role admin was exchanged for tokens of the role member its
\* subject has now.
C30_Witness ==
    /\ resp.op = "refresh_token"
    /\ "code" \in DOMAIN resp
    /\ resp.code = 401
    /\ resp.request.refresh_token \in RemovedUserTokens
    /\ session.pc = "returned"
    /\ session.op = "refresh_token"
    /\ session.request.refresh_token.role = "admin"
    /\ \A t \in session.issued : t.role = "member"
    /\ users[session.request.refresh_token.sub].role = "member"

====
